---- MODULE Spec2Model ----
(***************************************************************************)
(* Access-decision engine of ubuntu-parental-control.                      *)
(*                                                                         *)
(* The rule store (database.py) is modelled table by table: every TinyDB   *)
(* table is a sequence of documents in insertion order.  A domain string   *)
(* is the sequence of its dot-separated labels, "sub.example.com" being    *)
(* <<"sub", "example", "com">>, so that split('.') and '.'.join(parts[i:]) *)
(* are SubSeq on the labels.  A time of day is the number of minutes since *)
(* midnight; a stored "HH:MM" string is turned into it by parse_time.      *)
(***************************************************************************)
EXTENDS Integers, Sequences, FiniteSets, TLC

VARIABLES
    now,                \* datetime.now(): [day, time]
    time_schedules,     \* table 'time_schedules'
    settings,           \* document 1 of table 'settings' (daily limit keys)
    daily_usage,        \* table 'daily_usage'
    blocked_sites,      \* table 'blocked_sites'
    blacklist_categories, \* table 'blacklist_categories', keyed by name
    blacklist_domains,  \* table 'blacklist_domains'
    last,               \* what the latest operation returned and logged
    hosts_file,         \* /etc/hosts: [exists, lines, mtime]
    backups,            \* the files hosts_backup_* of the backup directory
    temporary_exceptions, \* table 'temporary_exceptions'
    chain,              \* the iptables chain PARENTAL_CONTROL
    requests,           \* the web requests that are being served
    applied,            \* what the latest hosts-file operation did
    returned,           \* what the latest firewall operation returned
    cache_modified,     \* CachingMiddleware: the cache holds writes that
                        \* the database file does not
    nat_chain,          \* the iptables chain PARENTAL_REDIRECT (table nat)
    daemon,             \* the time-enforcement daemon: where it is
    cert_dir,           \* the files of /opt/ubuntu-parental-control/certs
    server              \* the blocking server: its listeners

vars == <<now, time_schedules, settings, daily_usage, blocked_sites,
          blacklist_categories, blacklist_domains, last, hosts_file,
          backups, temporary_exceptions, chain, requests, applied,
          returned, cache_modified, nat_chain, daemon, cert_dir, server>>

\* What the store, the hosts file and the filter chain have no part in.
others == <<nat_chain, daemon, cert_dir, server>>

----------------------------------------------------------------------------
(* Bounds of the model.                                                    *)

MaxDay == 2             \* days 0..MaxDay are modelled; day 0 is a Sunday
MaxSchedules == 2       \* documents in time_schedules
MaxMinutes == 2         \* minutes_used recorded per day
MaxListLen == 1         \* domains in one downloaded category list
MaxWrites == 3          \* times the hosts file is written
MaxExceptions == 1      \* documents in temporary_exceptions
MaxRules == 16           \* rules of the chain PARENTAL_CONTROL

\* Times of day the clock takes: 05:00 06:00 07:00 21:00 22:00 23:30.
Times == {300, 360, 420, 1260, 1320, 1410}

\* "HH:MM" strings offered to add_schedule.
TimeStrs == {"06:00", "22:00"}

\* Day lists offered to add_schedule: Monday only, Sunday only.
DaySets == {{0}, {6}}

\* What a caller may hand to add_schedule: a time that is no HH:MM, no day
\* at all, a day that is none.
FormTimeStrs == {"06:00", "25:00"}
FormDaySets == {{}, {0}, {7}}

\* Daily caps offered to set_daily_limit.
LimitInputs == {0, 1}

\* Domains, as label sequences.
example_com == <<"example", "com">>
sub_example_com == <<"sub", "example", "com">>
a_sub_example_com == <<"a", "sub", "example", "com">>
facebook_com == <<"facebook", "com">>
m_facebook_com == <<"m", "facebook", "com">>

\* No domain given: is_access_allowed(domain=None).
NoDomain == <<>>

\* Domains offered to the block operations and found in downloaded lists.
StoredDomains == {example_com, sub_example_com}

\* What the forms of /block_site and /add_blocked_site may carry: strings
\* with a "www." prefix (once and twice), upper case, a scheme and a path,
\* a port, a wildcard, a trailing dot and a malformed label.
RawDomains ==
    {example_com, <<"www", "example", "com">>,
     <<"www", "www", "example", "com">>, <<"Example", "COM">>,
     <<"http://www", "example", "com/path">>, <<"example", "com:8080">>,
     <<"*", "example", "com">>, <<"example", "com", "">>,
     <<"bad_host", "com">>}

\* Length of the manual block list up to which the forms are submitted.
MaxSites == 2

\* The domains an external blacklist may list.
ListedDomains == StoredDomains \cup {facebook_com}

\* Hosts of the requests that are decided.
RequestDomains == {example_com, sub_example_com, a_sub_example_com,
                   facebook_com, m_facebook_com}

\* Categories of the store: CategoryManager.BUILTIN_CATEGORIES and
\* CategoryManager.UT1_CATEGORIES, one and two of them modelled.
BuiltinNames == {"social_media"}
Ut1Names == {"adult", "gambling"}
CategoryNames == BuiltinNames \cup Ut1Names

\* The category tag the /add_blocked_site form sends.
FormCategories == {"MANUAL"}

----------------------------------------------------------------------------
(* Clock.                                                                  *)

\* datetime.weekday(): 0 = Monday .. 6 = Sunday.
Weekday(day) == (day + 6) % 7

\* datetime.date.today().isoformat(): one value per calendar day.
Today == now.day

----------------------------------------------------------------------------
(* time_management.py                                                      *)

\* TimeManager._parse_time: strptime(time_str, '%H:%M'), midnight on a
\* ValueError.
parse_time(time_str) ==
    CASE time_str = "00:00" -> 0
      [] time_str = "06:00" -> 360
      [] time_str = "22:00" -> 1320
      [] time_str = "23:59" -> 1439
      [] OTHER -> 0

\* TimeManager._is_time_in_schedule.
is_time_in_schedule(current_time, schedule) ==
    LET start_time == parse_time(schedule.start_time)
        end_time == parse_time(schedule.end_time)
    IN  IF start_time <= end_time
        THEN start_time <= current_time /\ current_time <= end_time
        ELSE current_time >= start_time

\* Mutation of _is_time_in_overnight_schedule: the morning part ends before
\* end_time.
is_time_in_overnight_schedule_strict(current_time, schedule) ==
    LET start_time == parse_time(schedule.start_time)
        end_time == parse_time(schedule.end_time)
    IN  IF start_time > end_time
        THEN current_time < end_time
        ELSE FALSE

\* TimeManager._is_time_in_overnight_schedule.
is_time_in_overnight_schedule(current_time, schedule) ==
    LET start_time == parse_time(schedule.start_time)
        end_time == parse_time(schedule.end_time)
    IN  IF start_time > end_time
        THEN current_time <= end_time
        ELSE FALSE

\* Mutation of get_time_schedules: the is_active filter is dropped.
get_time_schedules_unfiltered(table, active_only) ==
    table

\* ParentalControlDB.get_time_schedules.
get_time_schedules(table, active_only) ==
    IF active_only THEN SelectSeq(table, LAMBDA s : s.is_active = TRUE)
    ELSE table

\* TimeManager._check_schedules at a clock reading: the loop returns True at
\* the first schedule that covers the reading and False after the loop.
check_schedules(table, clock) ==
    LET schedules == get_time_schedules(table, TRUE)
        current_time == clock.time
        current_weekday == Weekday(clock.day)
        prev_weekday == IF current_weekday = 0 THEN 6 ELSE current_weekday - 1
    IN  \E i \in 1..Len(schedules) :
           \/ /\ current_weekday \in schedules[i].days
              /\ is_time_in_schedule(current_time, schedules[i])
           \/ /\ prev_weekday \in schedules[i].days
              /\ is_time_in_overnight_schedule(current_time, schedules[i])

\* ParentalControlDB.get_daily_usage_limit: None (here <<>>) unless the
\* settings document has the key 'time_limit_minutes'.
get_daily_usage_limit(doc) ==
    IF doc.has_limit
    THEN <<[time_limit_minutes |-> doc.time_limit_minutes,
            is_active |-> doc.is_active]>>
    ELSE <<>>

\* ParentalControlDB.get_daily_usage followed by the .get('minutes_used', 0)
\* of TimeManager.get_todays_usage: the first record of the date, or 0.
get_todays_usage(table, date) ==
    LET result == SelectSeq(table, LAMBDA u : u.date = date)
    IN  IF result # <<>> THEN result[1].minutes_used ELSE 0

\* Mutation of TimeManager.is_access_allowed: the cap is reached only
\* above the limit.
TimeManager_is_access_allowed_above(schedules, doc, usage, clock) ==
    LET limit == get_daily_usage_limit(doc)
    IN  IF ~check_schedules(schedules, clock)
        THEN [allowed |-> FALSE, reason |-> "Outside of allowed schedule"]
        ELSE IF /\ limit # <<>>
                /\ limit[1].is_active
                /\ get_todays_usage(usage, clock.day) > limit[1].time_limit_minutes
        THEN [allowed |-> FALSE, reason |-> "Daily usage limit reached"]
        ELSE [allowed |-> TRUE, reason |-> "Access allowed"]

\* TimeManager.is_access_allowed.
TimeManager_is_access_allowed(schedules, doc, usage, clock) ==
    LET limit == get_daily_usage_limit(doc)
    IN  IF ~check_schedules(schedules, clock)
        THEN [allowed |-> FALSE, reason |-> "Outside of allowed schedule"]
        ELSE IF /\ limit # <<>>
                /\ limit[1].is_active
                /\ get_todays_usage(usage, clock.day) >= limit[1].time_limit_minutes
        THEN [allowed |-> FALSE, reason |-> "Daily usage limit reached"]
        ELSE [allowed |-> TRUE, reason |-> "Access allowed"]

\* The reads of the store that may raise while a verdict is computed.
ReadFailures == {"none", "schedules", "limit", "usage"}

\* TimeManager.is_access_allowed when the read `fail` of the store raises:
\* _check_schedules returns True from its except clause, get_daily_limit
\* returns None and get_todays_usage returns 0.
TimeManager_is_access_allowed_reading(schedules, doc, usage, clock, fail) ==
    LET in_schedule == IF fail = "schedules" THEN TRUE
                       ELSE check_schedules(schedules, clock)
        limit == IF fail = "limit" THEN <<>> ELSE get_daily_usage_limit(doc)
        used == IF fail = "usage" THEN 0
                ELSE get_todays_usage(usage, clock.day)
    IN  IF fail = "none"
        THEN TimeManager_is_access_allowed(schedules, doc, usage, clock)
        ELSE IF ~in_schedule
        THEN [allowed |-> FALSE, reason |-> "Outside of allowed schedule"]
        ELSE IF /\ limit # <<>>
                /\ limit[1].is_active
                /\ used >= limit[1].time_limit_minutes
        THEN [allowed |-> FALSE, reason |-> "Daily usage limit reached"]
        ELSE [allowed |-> TRUE, reason |-> "Access allowed"]

\* Mutation of record_daily_usage: a new record on every call.
record_daily_usage_insert(table, date_str, minutes) ==
    Append(table, [date |-> date_str, minutes_used |-> minutes])

\* ParentalControlDB.record_daily_usage: every record of the date is set to
\* the first one's minutes plus `minutes`; without one a record is inserted.
record_daily_usage(table, date_str, minutes) ==
    LET existing == SelectSeq(table, LAMBDA u : u.date = date_str)
    IN  IF existing # <<>>
        THEN [i \in 1..Len(table) |->
                IF table[i].date = date_str
                THEN [table[i] EXCEPT
                        !.minutes_used = existing[1].minutes_used + minutes]
                ELSE table[i]]
        ELSE Append(table, [date |-> date_str, minutes_used |-> minutes])

----------------------------------------------------------------------------
(* parental_control.py, database.py, category_manager.py: the block lists  *)

\* The keys of WebsiteCategory.SOCIAL_MEDIA, GAMING and VIDEO.
SOCIAL_MEDIA == {<<"facebook", "com">>, <<"instagram", "com">>,
                 <<"twitter", "com">>, <<"tiktok", "com">>,
                 <<"snapchat", "com">>}
GAMING == {<<"roblox", "com">>, <<"minecraft", "net">>,
           <<"epicgames", "com">>, <<"steampowered", "com">>,
           <<"discord", "com">>}
VIDEO == {<<"youtube", "com">>, <<"twitch", "tv">>, <<"vimeo", "com">>,
          <<"dailymotion", "com">>}

\* ParentalControl._detect_category.
detect_category(domain) ==
    IF domain \in SOCIAL_MEDIA THEN "SOCIAL_MEDIA"
    ELSE IF domain \in GAMING THEN "GAMING"
    ELSE IF domain \in VIDEO THEN "VIDEO"
    ELSE "OTHER"

\* CategoryManager.BUILTIN_CATEGORIES[category_id]['domains'].
BUILTIN_CATEGORIES(category_id) ==
    IF category_id = "social_media"
    THEN {<<"facebook", "com">>, <<"www", "facebook", "com">>, <<"fb", "com">>,
          <<"twitter", "com">>, <<"www", "twitter", "com">>, <<"x", "com">>,
          <<"instagram", "com">>, <<"www", "instagram", "com">>,
          <<"tiktok", "com">>, <<"www", "tiktok", "com">>,
          <<"snapchat", "com">>, <<"www", "snapchat", "com">>,
          <<"linkedin", "com">>, <<"www", "linkedin", "com">>,
          <<"reddit", "com">>, <<"www", "reddit", "com">>,
          <<"pinterest", "com">>, <<"www", "pinterest", "com">>}
    ELSE {}

\* CategoryManager.BUILTIN_CATEGORIES[category_id]['name'] and
\* UT1_CATEGORIES[category_id]['name']: the display_name of the document.
display_name(category_id) ==
    CASE category_id = "social_media" -> "Social Media"
      [] category_id = "adult" -> "Adult Content"
      [] category_id = "gambling" -> "Gambling"
      [] OTHER -> category_id

\* '.'.join(parts[i:]) of the parent-domain walks.
parent_domain(parts, i) == SubSeq(parts, i + 1, Len(parts))

\* ParentalControlDB.is_site_blocked: a document with exactly this domain.
is_site_blocked(table, domain) ==
    \E i \in 1..Len(table) : table[i].domain = domain

\* ParentalControlDB.get_blacklist_categories(active_only=True), by name.
active_category_names(categories) ==
    {c \in DOMAIN categories : categories[c].is_active = TRUE}

\* blacklist_domains.search(Domain.domain == domain).
search_domain(table, domain) ==
    SelectSeq(table, LAMBDA e : e.domain = domain)

\* ParentalControlDB.is_domain_in_blacklist: the exact matches or, when there
\* is none, the matches of the first parent that has any; of these, the ones
\* in an active category.
is_domain_in_blacklist(categories, table, domain) ==
    LET active == active_category_names(categories)
        exact == search_domain(table, domain)
        hits == {i \in 1..(Len(domain) - 1) :
                    search_domain(table, parent_domain(domain, i)) # <<>>}
        first == CHOOSE i \in hits : \A j \in hits : i <= j
        results == IF exact # <<>> \/ hits = {} THEN exact
                   ELSE search_domain(table, parent_domain(domain, first))
        active_results == SelectSeq(results, LAMBDA e : e.category \in active)
        names == [i \in 1..Len(active_results) |-> active_results[i].category]
    IN  IF active = {} THEN [blocked |-> FALSE, categories |-> <<>>]
        ELSE [blocked |-> names # <<>>, categories |-> names]

\* The category of the manual entry of `domain` (is_domain_blocked:
\* manual_site.get('category', 'MANUAL')).
manual_category(table, domain) ==
    LET found == SelectSeq(table, LAMBDA e : e.domain = domain)
    IN  IF found # <<>> THEN found[1].category ELSE "MANUAL"

\* An is_domain_blocked that knows the exact manual entry and the
\* blacklists only.
is_domain_blocked_exact(sites, categories, table, domain) ==
    IF is_site_blocked(sites, domain)
    THEN [blocked |-> TRUE,
          categories |-> <<manual_category(sites, domain)>>]
    ELSE is_domain_in_blacklist(categories, table, domain)

\* ParentalControl.is_domain_blocked: manual entries (exact, then parents),
\* active built-in categories (exact or parent), then the blacklists.
is_domain_blocked(sites, categories, table, domain) ==
    LET parents == {i \in 1..(Len(domain) - 1) :
                      is_site_blocked(sites, parent_domain(domain, i))}
        first == CHOOSE i \in parents : \A j \in parents : i <= j
        builtin == {c \in active_category_names(categories) :
                      /\ categories[c].source = "built-in"
                      /\ \/ domain \in BUILTIN_CATEGORIES(c)
                         \/ \E i \in 1..(Len(domain) - 1) :
                               parent_domain(domain, i) \in BUILTIN_CATEGORIES(c)}
    IN  IF is_site_blocked(sites, domain)
        THEN [blocked |-> TRUE,
              categories |-> <<manual_category(sites, domain)>>]
        ELSE IF parents # {}
        THEN [blocked |-> TRUE,
              categories |->
                 <<manual_category(sites, parent_domain(domain, first))>>]
        ELSE IF builtin # {}
        THEN [blocked |-> TRUE,
              categories |-> <<display_name(CHOOSE c \in builtin : TRUE)>>]
        ELSE is_domain_in_blacklist(categories, table, domain)

\* ParentalControl.is_access_allowed, its verdict and what it logs: `time`
\* is the verdict of TimeManager.is_access_allowed; the reason of a
\* blacklist block is "Blocked by categories: " and the names in `category`.
ParentalControl_is_access_allowed(time, sites, categories, table, domain) ==
    LET listed == is_domain_in_blacklist(categories, table, domain)
    IN  IF ~time.allowed
        THEN [allowed |-> FALSE, reason |-> time.reason,
              log_action |-> IF domain # NoDomain THEN "blocked" ELSE "",
              category |-> IF domain # NoDomain THEN <<"time_restriction">>
                           ELSE <<>>]
        ELSE IF domain # NoDomain /\ is_site_blocked(sites, domain)
        THEN [allowed |-> FALSE, reason |-> "Blocked by manual site blocking",
              log_action |-> "blocked", category |-> <<"manual_block">>]
        ELSE IF domain # NoDomain /\ listed.blocked
        THEN [allowed |-> FALSE, reason |-> "Blocked by categories",
              log_action |-> "blocked", category |-> listed.categories]
        ELSE [allowed |-> TRUE, reason |-> "Access allowed",
              log_action |-> IF domain # NoDomain THEN "allowed" ELSE "",
              category |-> <<>>]

\* The decision in the current state.
Decide(domain) ==
    ParentalControl_is_access_allowed(
        TimeManager_is_access_allowed(time_schedules, settings, daily_usage, now),
        blocked_sites, blacklist_categories, blacklist_domains, domain)

\* The decision in the current state when the read `fail` of the store
\* raises.
DecideReading(domain, fail) ==
    ParentalControl_is_access_allowed(
        TimeManager_is_access_allowed_reading(time_schedules, settings,
                                              daily_usage, now, fail),
        blocked_sites, blacklist_categories, blacklist_domains, domain)

----------------------------------------------------------------------------
(* hosts_manager.py                                                        *)
(*                                                                         *)
(* The hosts file is the sequence content.split('\n') of its lines.  A     *)
(* line is a record: `kind` tells a blank line, a comment, the two marker  *)
(* lines, the "# Updated:" and "# Blocking n domains" lines and a host     *)
(* entry apart; an entry has an address and host names; `n` is the         *)
(* timestamp of an "# Updated:" line and the count of a "# Blocking" line. *)

\* datetime.now().strftime(...): the clock reading in a file name or line.
Stamp(clock) == clock.day * 1440 + clock.time

localhost == <<"localhost">>
localhost_localdomain == <<"localhost", "localdomain">>
ip6_localhost == <<"ip6-localhost">>
ip6_loopback == <<"ip6-loopback">>

\* A domain typed in capitals and one with a character the pattern of
\* _clean_domains refuses.
EXAMPLE_COM == <<"Example", "COM">>
bad_domain == <<"bad_host", "com">>

BlankLine == [kind |-> "blank", ip |-> "", hostnames |-> <<>>, n |-> 0]
CommentLine == [kind |-> "comment", ip |-> "", hostnames |-> <<>>, n |-> 0]
HostEntry(ip, hostnames) ==
    [kind |-> "entry", ip |-> ip, hostnames |-> hostnames, n |-> 0]

\* HostsFileManager.start_marker, end_marker.
start_marker == [kind |-> "start", ip |-> "", hostnames |-> <<>>, n |-> 0]
end_marker == [kind |-> "end", ip |-> "", hostnames |-> <<>>, n |-> 0]

\* f"# Updated: {datetime.now()...}" and f"# Blocking {n} domains".
UpdatedLine(stamp) ==
    [kind |-> "updated", ip |-> "", hostnames |-> <<>>, n |-> stamp]
BlockingLine(count) ==
    [kind |-> "count", ip |-> "", hostnames |-> <<>>, n |-> count]

\* HostsFileManager.system_entries, in the order of the dict.
system_entries ==
    << [ip |-> "127.0.0.1", hostnames |-> <<localhost, localhost_localdomain>>],
       [ip |-> "::1", hostnames |-> <<localhost, ip6_localhost, ip6_loopback>>],
       [ip |-> "fe00::0", hostnames |-> << <<"ip6-localnet">> >>],
       [ip |-> "ff00::0", hostnames |-> << <<"ip6-mcastprefix">> >>],
       [ip |-> "ff02::1", hostnames |-> << <<"ip6-allnodes">> >>],
       [ip |-> "ff02::2", hostnames |-> << <<"ip6-allrouters">> >>] >>

\* The elements of a sequence.
Range(seq) == {seq[i] : i \in 1..Len(seq)}

\* HostsFileManager.validate_hosts_content: an entry 127.0.0.1 that names
\* localhost; a missing ::1 entry is only a warning.
validate_hosts_content(lines) ==
    \E i \in 1..Len(lines) :
       /\ lines[i].kind = "entry"
       /\ lines[i].ip = "127.0.0.1"
       /\ localhost \in Range(lines[i].hostnames)

\* _ensure_system_entries that appends nothing.
ensure_system_entries_nothing(lines) == lines

\* HostsFileManager._ensure_system_entries: a system entry is appended when
\* no entry of its address names one of its host names.
ensure_system_entries(lines) ==
    LET found(e) ==
          \E i \in 1..Len(lines) :
             /\ lines[i].kind = "entry"
             /\ lines[i].ip = e.ip
             /\ Range(lines[i].hostnames) \cap Range(e.hostnames) # {}
        missing == SelectSeq(system_entries, LAMBDA e : ~found(e))
    IN  lines \o [i \in 1..Len(missing) |->
                    HostEntry(missing[i].ip, missing[i].hostnames)]

\* HostsFileManager._extract_non_parental_lines: the lines that are not
\* between a start and an end marker, then the missing system entries.
extract_non_parental_lines(lines) ==
    LET F[i \in 0..Len(lines)] ==
          IF i = 0 THEN [in_parental_section |-> FALSE, result_lines |-> <<>>]
          ELSE LET prev == F[i - 1]
               IN  IF lines[i].kind = "start"
                   THEN [prev EXCEPT !.in_parental_section = TRUE]
                   ELSE IF lines[i].kind = "end"
                   THEN [prev EXCEPT !.in_parental_section = FALSE]
                   ELSE IF ~prev.in_parental_section
                   THEN [prev EXCEPT
                           !.result_lines = Append(prev.result_lines, lines[i])]
                   ELSE prev
    IN  ensure_system_entries(F[Len(lines)].result_lines)

\* str.lower() on a label.
lower_label(label) ==
    CASE label = "Example" -> "example"
      [] label = "COM" -> "com"
      [] OTHER -> label

\* domain.strip().lower()
lower(domain) == [i \in 1..Len(domain) |-> lower_label(domain[i])]

\* The labels of the model that hold a scheme, a path and a port: the pieces
\* between the dots of "http://www.example.com/path" and "example.com:8080".
SchemeLabels == {"http://www"}
PathLabels == {"com/path"}
PortLabels == {"com:8080"}

\* The label after "://".
strip_scheme(label) == IF label = "http://www" THEN "www" ELSE label

\* label.split('/')[0] and label.split(':')[0].
cut_path(label) == IF label = "com/path" THEN "com" ELSE label
cut_port(label) == IF label = "com:8080" THEN "com" ELSE label

\* The string up to the first label of `marked`, that label cut by `cut`:
\* domain.split(sep)[0].
split_first(domain, marked, cut) ==
    IF \E i \in 1..Len(domain) : domain[i] \in marked
    THEN LET i == CHOOSE k \in 1..Len(domain) :
                      /\ domain[k] \in marked
                      /\ \A j \in 1..(k - 1) : domain[j] \notin marked
         IN  [j \in 1..i |-> IF j = i THEN cut[domain[j]] ELSE domain[j]]
    ELSE domain

\* urlparse(domain).netloc of a string that starts with "http://": what
\* stands between the scheme and the path, the port included.
netloc(domain) ==
    LET rest == [domain EXCEPT ![1] = strip_scheme(@)]
    IN  split_first(rest, PathLabels, [l \in PathLabels |-> cut_path(l)])

\* One label of DOMAIN_PATTERN and of HostsFileManager's domain_pattern:
\* letters, digits and inner hyphens, so neither empty (a leading, trailing
\* or doubled dot) nor "*", "bad_host" or a label with "/" or ":".
valid_label(label) ==
    label \notin ({"", "*", "bad_host"}
                   \cup SchemeLabels \cup PathLabels \cup PortLabels)

\* InputValidator.validate_domain: the domain it returns, or ok = FALSE
\* where it raises ValidationError. No string of the model is an IP address.
validate_domain(domain_raw) ==
    LET lowered == lower(domain_raw)
        no_scheme == IF lowered # <<>> /\ lowered[1] \in SchemeLabels
                     THEN netloc(lowered) ELSE lowered
        no_www == IF Len(no_scheme) > 1 /\ no_scheme[1] = "www"
                  THEN Tail(no_scheme) ELSE no_scheme
        no_path == split_first(no_www, PathLabels,
                               [l \in PathLabels |-> cut_path(l)])
        no_port == split_first(no_path, PortLabels,
                               [l \in PortLabels |-> cut_port(l)])
    IN  IF lowered = <<>> THEN [ok |-> FALSE, domain |-> <<>>]
        ELSE IF \E i \in 1..Len(no_port) : ~valid_label(no_port[i])
        THEN [ok |-> FALSE, domain |-> <<>>]
        ELSE [ok |-> TRUE, domain |-> no_port]

\* domain_pattern.match: every label is made of letters, digits and inner
\* hyphens.
domain_pattern_match(domain) ==
    \A i \in 1..Len(domain) : valid_label(domain[i])

\* HostsFileManager._clean_domains.
clean_domains(domains) ==
    {lower(d) : d \in {e \in domains :
        /\ e # <<>>
        /\ lower(e) \notin {localhost, localhost_localdomain}
        /\ domain_pattern_match(lower(e))}}

\* The domains of the model in the order of sorted() on their strings.
DomainOrder ==
    << <<"a", "sub", "example", "com">>, <<"example", "com">>,
       <<"facebook", "com">>, <<"fb", "com">>, <<"instagram", "com">>,
       <<"linkedin", "com">>, <<"m", "facebook", "com">>,
       <<"pinterest", "com">>, <<"reddit", "com">>, <<"snapchat", "com">>,
       <<"sub", "example", "com">>, <<"tiktok", "com">>, <<"twitter", "com">>,
       <<"www", "example", "com">>, <<"www", "facebook", "com">>, <<"www", "instagram", "com">>,
       <<"www", "linkedin", "com">>, <<"www", "pinterest", "com">>,
       <<"www", "reddit", "com">>, <<"www", "snapchat", "com">>,
       <<"www", "tiktok", "com">>, <<"www", "twitter", "com">>,
       <<"x", "com">> >>

\* sorted(clean_domains)
sorted(domains) == SelectSeq(DomainOrder, LAMBDA d : d \in domains)

\* HostsFileManager._cleanup_old_backups: the keep_count backups of the
\* latest modification times stay (the order among equal times, which
\* sorted() leaves to glob, is taken by name here).
keep_count == 10

cleanup_old_backups(dir) ==
    LET newer(a, b) == \/ a.mtime > b.mtime
                       \/ a.mtime = b.mtime /\ a.name > b.name
    IN  {b \in dir : Cardinality({a \in dir : newer(a, b)}) < keep_count}

\* HostsFileManager.backup_hosts_file: shutil.copy2 to hosts_backup_<stamp>,
\* which keeps the modification time of the hosts file and replaces a
\* backup of the same second; None when the file is missing or the copy
\* fails.
backup_hosts_file(file, dir, clock, fail) ==
    IF ~file.exists \/ fail = "backup"
    THEN [ok |-> FALSE, dir |-> dir]
    ELSE [ok |-> TRUE,
          dir |-> cleanup_old_backups(
                     {b \in dir : b.name # Stamp(clock)}
                     \cup {[name |-> Stamp(clock), lines |-> file.lines,
                            mtime |-> file.mtime]})]

\* HostsFileManager._write_hosts_file_atomic, when the temporary file could
\* be written: the rename puts the new content in place.
write_hosts_file_atomic(file, lines) ==
    [exists |-> TRUE, lines |-> lines, mtime |-> file.mtime + 1]

\* An update that opens the hosts file for writing in place, so that a
\* failed write leaves it truncated.
update_blocked_domains_in_place(file, dir, domains, clock, fail) ==
    IF fail = "write"
    THEN [ok |-> FALSE, failed |-> "write",
          hosts |-> [file EXCEPT !.lines = <<>>], dir |-> dir]
    ELSE [ok |-> FALSE, failed |-> "backup", hosts |-> file, dir |-> dir]

\* HostsFileManager.update_blocked_domains at clock reading `clock`; `fail`
\* is the step the environment makes fail, if any.  The result, the step
\* that failed, the hosts file and the backup directory afterwards.
update_blocked_domains(file, dir, domains, clock, fail) ==
    LET backup == backup_hosts_file(file, dir, clock, fail)
        preserved_lines == extract_non_parental_lines(file.lines)
        clean == clean_domains(domains)
        entries == sorted(clean)
        section ==
           <<BlankLine, start_marker, UpdatedLine(Stamp(clock)),
             BlockingLine(Cardinality(clean))>>
           \o [i \in 1..Len(entries) |-> HostEntry("127.0.0.1", <<entries[i]>>)]
           \o <<end_marker, BlankLine>>
        new_lines == IF domains # {} THEN preserved_lines \o section
                     ELSE preserved_lines
    IN  IF ~backup.ok
        THEN [ok |-> FALSE, failed |-> "backup", hosts |-> file, dir |-> dir]
        ELSE IF fail = "read"
        THEN [ok |-> FALSE, failed |-> "read", hosts |-> file,
              dir |-> backup.dir]
        ELSE IF ~validate_hosts_content(new_lines)
        THEN [ok |-> FALSE, failed |-> "validate", hosts |-> file,
              dir |-> backup.dir]
        ELSE IF fail = "write"
        THEN [ok |-> FALSE, failed |-> "write", hosts |-> file,
              dir |-> backup.dir]
        ELSE [ok |-> TRUE, failed |-> "",
              hosts |-> write_hosts_file_atomic(file, new_lines),
              dir |-> backup.dir]

\* The backups restore_from_backup(None) may take: those of the latest
\* modification time.
most_recent_backups(dir) ==
    {b \in dir : \A a \in dir : a.mtime <= b.mtime}

\* A restore that writes the backup back without validating it.
restore_from_backup_unvalidated(file, backup, fail) ==
    [ok |-> TRUE, failed |-> "",
     hosts |-> write_hosts_file_atomic(file, backup.lines)]

\* HostsFileManager.restore_from_backup with the backup `backup`; the
\* environment may make the read of the backup or the write fail.
restore_from_backup(file, backup, fail) ==
    IF fail \in {"backup", "read"}
    THEN [ok |-> FALSE, failed |-> "read", hosts |-> file]
    ELSE IF ~validate_hosts_content(backup.lines)
    THEN [ok |-> FALSE, failed |-> "validate", hosts |-> file]
    ELSE IF fail = "write"
    THEN [ok |-> FALSE, failed |-> "write", hosts |-> file]
    ELSE [ok |-> TRUE, failed |-> "",
          hosts |-> write_hosts_file_atomic(file, backup.lines)]

\* A line that the address /domain/ of sed selects: an entry with a host
\* name in which the labels of the domain occur.
line_matches(line, domain) ==
    /\ line.kind = "entry"
    /\ \E h \in Range(line.hostnames) :
          \E k \in 0..(Len(h) - Len(domain)) :
             SubSeq(h, k + 1, k + Len(domain)) = domain

\* ParentalControl._remove_domain_block: sed -i '/<domain>/d' /etc/hosts,
\* which writes the file again without the selected lines.
remove_domain_block(file, domain) ==
    IF ~file.exists THEN file
    ELSE [exists |-> TRUE,
          lines |-> SelectSeq(file.lines, LAMBDA l : ~line_matches(l, domain)),
          mtime |-> file.mtime + 1]

\* get_blocked_domains without the built-in categories.
get_blocked_domains_no_builtin(sites, categories, table) ==
    {sites[i].domain : i \in 1..Len(sites)}
    \cup {table[i].domain :
            i \in {j \in 1..Len(table) :
                     table[j].category \in active_category_names(categories)}}

\* ParentalControl.get_blocked_domains: the manual entries, the domains of
\* the active blacklist categories and those of the active built-in ones.
get_blocked_domains(sites, categories, table) ==
    {sites[i].domain : i \in 1..Len(sites)}
    \cup {table[i].domain :
            i \in {j \in 1..Len(table) :
                     table[j].category \in active_category_names(categories)}}
    \cup UNION {BUILTIN_CATEGORIES(c) :
                  c \in {n \in active_category_names(categories) :
                           categories[n].source = "built-in"}}

\* ParentalControlDB.get_active_exceptions: expiry_time > now.
get_active_exceptions(table, clock) ==
    SelectSeq(table, LAMBDA e : e.expiry_time > Stamp(clock))

\* ParentalControlDB.cleanup_expired_exceptions.
cleanup_expired_exceptions(table, clock) ==
    SelectSeq(table, LAMBDA e : ~(e.expiry_time <= Stamp(clock)))

----------------------------------------------------------------------------
(* network_enforcer.py                                                     *)
(*                                                                         *)
(* The chain PARENTAL_CONTROL is a record: whether it exists, how many     *)
(* rules of OUTPUT jump to it, and its rules in order.  iptables runs as   *)
(* root; _run_iptables turns its exit status into success, and also the    *)
(* messages "already exists" and "does a matching rule exist".  The        *)
(* commands of Enable, Disable and Status may fail for reasons of the      *)
(* machine (the xtables lock is held, a match module is missing): `broken` *)
(* is the set of the commands that fail in one call.                       *)

\* The rules of enable_time_restriction, in the order they are appended.
RULES ==
    <<"lo", "ESTABLISHED,RELATED", "192.168.0.0/16", "172.16.0.0/12",
      "10.0.0.0/8", "udp 53", "tcp 53", "REJECT">>

\* The commands that may fail, and the failures of one call: none, or one
\* command.
Commands == {"-F", "-L"} \cup {RULES[i] : i \in 1..Len(RULES)}
BrokenSets == {{}} \cup {{command} : command \in Commands}

\* _run_iptables when iptables exits with an error.
iptables_error(c) == [success |-> FALSE, chain |-> c]

\* iptables -N <chain>: "Chain already exists" counts as success.
iptables_N(c) ==
    [success |-> TRUE, chain |-> [c EXCEPT !.exists = TRUE]]

\* iptables -C OUTPUT -j <chain>: without the jump iptables says
\* "Bad rule (does a matching rule exist in that chain?)", which
\* _run_iptables reports as success.
iptables_C_OUTPUT(c) == [success |-> TRUE, chain |-> c]

\* iptables -I OUTPUT 1 -j <chain>.
iptables_I_OUTPUT(c) ==
    [success |-> c.exists,
     chain |-> IF c.exists THEN [c EXCEPT !.jumps = c.jumps + 1] ELSE c]

\* iptables -A <chain> <rule>.
iptables_A(c, rule) ==
    [success |-> c.exists,
     chain |-> IF c.exists THEN [c EXCEPT !.rules = Append(c.rules, rule)]
               ELSE c]

\* iptables -F <chain>.
iptables_F(c) ==
    [success |-> c.exists,
     chain |-> IF c.exists THEN [c EXCEPT !.rules = <<>>] ELSE c]

\* iptables -D OUTPUT -j <chain>: one jump is deleted; without a jump the
\* message is "does a matching rule exist", reported as success.
iptables_D_OUTPUT(c) ==
    [success |-> TRUE,
     chain |-> IF c.jumps > 0 THEN [c EXCEPT !.jumps = c.jumps - 1] ELSE c]

\* iptables -X <chain>: refused while the chain is referenced or has rules.
iptables_X(c) ==
    LET deletable == c.exists /\ c.jumps = 0 /\ c.rules = <<>>
    IN  [success |-> deletable,
         chain |-> IF deletable THEN [c EXCEPT !.exists = FALSE] ELSE c]

\* NetworkEnforcer._ensure_chain_exists and
\* PortRedirector._ensure_chain_exists.
ensure_chain_exists(c) ==
    LET created == iptables_N(c)
        checked == iptables_C_OUTPUT(created.chain)
    IN  IF ~created.success THEN created.chain
        ELSE IF ~checked.success
        THEN iptables_I_OUTPUT(checked.chain).chain
        ELSE checked.chain

\* A flush that deletes the REJECT rule only.
clear_rules_reject_only(c, broken) ==
    IF "-F" \in broken THEN iptables_error(c)
    ELSE [success |-> c.exists,
          chain |-> [c EXCEPT !.rules = SelectSeq(c.rules,
                                                  LAMBDA r : r # "REJECT")]]

\* NetworkEnforcer._clear_rules.
clear_rules(c, broken) ==
    IF "-F" \in broken THEN iptables_error(c) ELSE iptables_F(c)

\* One iptables -A of enable_time_restriction: rule number i.
add_rule(c, i, broken) ==
    IF RULES[i] \in broken THEN iptables_error(c) ELSE iptables_A(c, RULES[i])

\* Where a failed -A makes enable_time_restriction return False: at the
\* loopback rule and at the REJECT rule; at the other rules it logs a
\* warning and goes on.
returns_false(i) == i = 1 \/ i = Len(RULES)

\* enable_time_restriction from its rule number i on.
RECURSIVE enable_from(_, _, _)
enable_from(c, i, broken) ==
    IF i > Len(RULES) THEN [success |-> TRUE, chain |-> c]
    ELSE LET r == add_rule(c, i, broken)
         IN  IF ~r.success /\ returns_false(i)
             THEN [success |-> FALSE, chain |-> r.chain]
             ELSE enable_from(r.chain, i + 1, broken)

\* NetworkEnforcer.enable_time_restriction: the chain is flushed, whatever
\* the flush returns, and the rules are appended.
enable_time_restriction(c, broken) ==
    enable_from(clear_rules(c, broken).chain, 1, broken)

\* NetworkEnforcer.disable_time_restriction.
disable_time_restriction(c, broken) == clear_rules(c, broken)

\* NetworkEnforcer.get_status: the rule lines of iptables -L are counted.
get_status(c, broken) ==
    IF "-L" \in broken \/ ~c.exists
    THEN [success |-> FALSE, enabled |-> FALSE, rules_count |-> 0]
    ELSE [success |-> TRUE, enabled |-> Len(c.rules) > 0,
          rules_count |-> Len(c.rules)]

\* A daemon that remembers what it did last instead of asking iptables.
is_internet_blocked_remembered(c, broken) == FALSE

\* NetworkEnforcer.is_internet_blocked.
is_internet_blocked(c, broken) == get_status(c, broken).enabled

\* NetworkEnforcer.cleanup.
cleanup(c) ==
    LET unlinked == iptables_D_OUTPUT(c)
        flushed == iptables_F(unlinked.chain)
        deleted == iptables_X(flushed.chain)
    IN  [success |-> deleted.success, chain |-> deleted.chain]

----------------------------------------------------------------------------
(* port_redirector.py                                                      *)
(*                                                                         *)
(* The chain PARENTAL_REDIRECT of the table nat is a record like the       *)
(* filter chain; its rules are records.  Its commands are taken not to     *)
(* fail for reasons of the machine.                                        *)

\* ParentalControl.start_blocking_server(port=8080, https_port=8443).
port == 8080
https_port == 8443

\* -p tcp -d 127.0.0.1 --dport <dport> -j REDIRECT --to-port <to_port>.
redirect_rule(dport, to_port) ==
    [protocol |-> "tcp", destination |-> "127.0.0.1", dport |-> dport,
     to_port |-> to_port]

\* PortRedirector.enable_redirection of a redirector built with
\* blocking_server_port: the chain is flushed, whatever the flush returns,
\* and the two rules are appended, both with --to-port blocking_server_port.
enable_redirection(c, blocking_server_port) ==
    LET cleared == iptables_F(c).chain
        http == iptables_A(cleared, redirect_rule(80, blocking_server_port))
        https == iptables_A(http.chain,
                            redirect_rule(443, blocking_server_port))
    IN  IF ~http.success THEN [success |-> FALSE, chain |-> http.chain]
        ELSE [success |-> https.success, chain |-> https.chain]

\* PortRedirector.disable_redirection.
disable_redirection(c) == iptables_F(c)

\* PortRedirector.cleanup: it returns True whatever iptables answers.
PortRedirector_cleanup(c) ==
    LET flushed == iptables_F(c)
        unlinked == iptables_D_OUTPUT(flushed.chain)
        deleted == iptables_X(unlinked.chain)
    IN  [success |-> TRUE, chain |-> deleted.chain]

----------------------------------------------------------------------------
(* cert_generator.py                                                       *)
(*                                                                         *)
(* The directories /opt/ubuntu-parental-control/certs and certs/domains    *)
(* are one set of files; a file is a record of its directory, its name (a  *)
(* sequence of labels, <<"ca">> for the root CA), its extension and the    *)
(* time it was written.  openssl and the write of the config file may fail *)
(* for reasons of the machine: `fail` names the step that fails in one     *)
(* call; a step that fails writes nothing.                                 *)

CertDomains == {example_com, <<"*", "example", "com">>}

OpensslFailures == {"none", "genrsa", "req", "cnf", "x509"}

\* Ages in days that cleanup_old_certs is called with.
CertDays == {0, 1}

path_exists(files, dir, name, ext) ==
    \E f \in files : f.dir = dir /\ f.name = name /\ f.ext = ext

unlink(files, dir, name, ext) ==
    {f \in files : ~(f.dir = dir /\ f.name = name /\ f.ext = ext)}

write_file(files, dir, name, ext, t) ==
    unlink(files, dir, name, ext)
       \cup {[dir |-> dir, name |-> name, ext |-> ext, mtime |-> t]}

\* ca_cert_path.exists() and ca_key_path.exists().
ca_exists(files) ==
    /\ path_exists(files, "certs", <<"ca">>, "crt")
    /\ path_exists(files, "certs", <<"ca">>, "key")

\* CertificateGenerator.get_cert_paths: the sanitized name,
\* domain.replace('*', 'wildcard'); a label holds no '/'.
safe_domain(domain) ==
    [i \in DOMAIN domain |-> IF domain[i] = "*" THEN "wildcard" ELSE domain[i]]

\* CertificateGenerator.has_cert.
has_cert(files, domain) ==
    /\ path_exists(files, "domains", safe_domain(domain), "crt")
    /\ path_exists(files, "domains", safe_domain(domain), "key")

\* The steps of generate_cert behind the two checks: genrsa writes the key,
\* req the signing request, then the config file, x509 the certificate
\* and the serial file of the CA; the request and the config are removed.
openssl_steps(files, domain, t, fail) ==
    LET name == safe_domain(domain)
        f1 == write_file(files, "domains", name, "key", t)
        f2 == write_file(f1, "domains", name, "csr", t)
        f3 == write_file(f2, "domains", name, "cnf", t)
        f4 == write_file(write_file(f3, "certs", <<"ca">>, "srl", t),
                         "domains", name, "crt", t)
    IN  IF fail = "genrsa" THEN [pair |-> FALSE, files |-> files]
        ELSE IF fail = "req" THEN [pair |-> FALSE, files |-> f1]
        ELSE IF fail = "cnf" THEN [pair |-> FALSE, files |-> f2]
        ELSE IF fail = "x509" THEN [pair |-> FALSE, files |-> f3]
        ELSE [pair |-> TRUE,
              files |-> unlink(unlink(f4, "domains", name, "csr"),
                               "domains", name, "cnf")]

\* A generate_cert that does not look for the root CA.
generate_cert_unchecked(files, domain, t, fail) ==
    IF has_cert(files, domain)
    THEN [pair |-> TRUE, files |-> files]
    ELSE openssl_steps(files, domain, t, fail)

\* CertificateGenerator.generate_cert(domain) at time t: `pair` tells
\* whether (cert_path, key_path) is returned rather than (None, None).
generate_cert(files, domain, t, fail) ==
    IF has_cert(files, domain)
    THEN [pair |-> TRUE, files |-> files]
    ELSE IF ~ca_exists(files)
    THEN [pair |-> FALSE, files |-> files]
    ELSE openssl_steps(files, domain, t, fail)

\* CertificateGenerator.cleanup_old_certs with the cutoff now - days: a
\* certificate written before it goes, and the key of the same name.
cleanup_old_certs(files, cutoff) ==
    LET old == {f \in files : /\ f.dir = "domains" /\ f.ext = "crt"
                              /\ f.mtime < cutoff}
    IN  {f \in files :
            ~(\E c \in old : /\ f.dir = "domains" /\ f.name = c.name
                             /\ f.ext \in {"crt", "key"})}

----------------------------------------------------------------------------
(* blocking_server.py                                                      *)
(*                                                                         *)
(* A server is a record: whether a listener serves on the HTTP port and on *)
(* the HTTPS port, the flag `running` of the BlockingServer object, and    *)
(* whether the process has built its PortRedirector.                       *)
(* Creating a listener fails when its port is taken; loading the CA into   *)
(* the TLS context may fail: `fail` names the listener that cannot be set  *)
(* up in one call.                                                         *)

ListenerFailures == {"none", "http", "https"}

\* A start that gives up when the root CA is missing.
BlockingServer_start_strict(srv, files, use_https, fail) ==
    IF fail = "http" \/ srv.http
    THEN [success |-> FALSE, server |-> [srv EXCEPT !.running = FALSE]]
    ELSE IF use_https /\ (~ca_exists(files) \/ fail = "https" \/ srv.https)
    THEN [success |-> FALSE,
          server |-> [srv EXCEPT !.http = TRUE, !.running = FALSE]]
    ELSE [success |-> TRUE,
          server |-> [srv EXCEPT !.http = TRUE, !.running = TRUE,
                                 !.https = use_https \/ srv.https]]

\* BlockingServer(...).start() of a new object while the listeners of
\* `srv` hold their ports: the HTTP listener first; the HTTPS listener
\* when use_https and both CA files exist; an exception leaves `running`
\* unset and the listener that already serves goes on serving.
BlockingServer_start(srv, files, use_https, fail) ==
    IF fail = "http" \/ srv.http
    THEN [success |-> FALSE, server |-> [srv EXCEPT !.running = FALSE]]
    ELSE IF use_https /\ ca_exists(files) /\ (fail = "https" \/ srv.https)
    THEN [success |-> FALSE,
          server |-> [srv EXCEPT !.http = TRUE, !.running = FALSE]]
    ELSE [success |-> TRUE,
          server |-> [srv EXCEPT
                         !.http = TRUE, !.running = TRUE,
                         !.https = (use_https /\ ca_exists(files))
                                      \/ srv.https]]

\* BlockingServer.is_running.
is_running(srv) == srv.running /\ srv.http

\* BlockingServer.stop: the listeners are shut down when `running` is set.
BlockingServer_stop(srv) ==
    IF srv.running
    THEN [srv EXCEPT !.http = FALSE, !.https = FALSE, !.running = FALSE]
    ELSE srv

----------------------------------------------------------------------------
(* State after construction.                                               *)

\* `last` when the latest operation was not a decision.
NoResult ==
    [op |-> "none", domain |-> NoDomain, allowed |-> FALSE, reason |-> "",
     log_action |-> "", category |-> <<>>, used_before |-> 0,
     store |-> "none"]

\* `applied` when the latest operation was none on the hosts file or the
\* firewall.
NoApply ==
    [op |-> "none", ok |-> FALSE, failed |-> "", domains |-> {},
     before |-> <<>>]

\* The web requests of the model and a request that is not being served.
Threads == {1, 2}
IdleRequest ==
    [pc |-> "idle", domains |-> {}, content |-> <<>>, ok |-> FALSE]

\* A firewall without the chain.
NoChain == [exists |-> FALSE, jumps |-> 0, rules |-> <<>>]

\* NetworkEnforcer.__init__ on a machine without the chain.
NewChain ==
    ensure_chain_exists(NoChain)

\* The daemon before it is started and the blocking server before it is.
\* `cache` is what the CachingMiddleware of the daemon's own
\* ParentalControlDB holds of the tables the tick reads.
NoCache ==
    [time_schedules |-> <<>>, daily_usage |-> <<>>,
     settings |-> [is_active |-> TRUE, has_limit |-> FALSE,
                   time_limit_minutes |-> 0]]
NoDaemon ==
    [pc |-> "down", rule |-> 0, should_block |-> FALSE, broken |-> {},
     cache |-> NoCache]
NoServer ==
    [http |-> FALSE, https |-> FALSE, running |-> FALSE, redirector |-> FALSE]

\* `returned` when no firewall operation has run; rules_before is the
\* number of rules the chain had when the operation started.
NoReturn ==
    [op |-> "none", success |-> FALSE, enabled |-> FALSE, rules_count |-> 0,
     rules_before |-> 0, broken |-> {}]

\* ParentalControlDB._init_tables and CategoryManager._init_builtin_categories,
\* _init_ut1_categories on an empty database file.
InitTables ==
    /\ settings = [has_limit |-> FALSE, time_limit_minutes |-> 0,
                   is_active |-> TRUE]
    /\ daily_usage = <<>>
    /\ blocked_sites = <<>>
    /\ blacklist_categories =
         [c \in CategoryNames |->
            IF c \in BuiltinNames
            THEN [source |-> "built-in", is_active |-> FALSE,
                  domains_loaded |-> TRUE,
                  domain_count |-> Cardinality(BUILTIN_CATEGORIES(c))]
            ELSE [source |-> "ut1-blacklist", is_active |-> FALSE,
                  domains_loaded |-> FALSE, domain_count |-> 0]]
    /\ blacklist_domains = <<>>
    /\ temporary_exceptions = <<>>
    /\ last = NoResult
    /\ backups = {}
    /\ chain = NewChain
    /\ returned = NoReturn
    /\ requests = [t \in Threads |-> IdleRequest]
    /\ applied = NoApply
    /\ cache_modified = FALSE
    /\ nat_chain = NoChain
    /\ daemon = NoDaemon
    /\ cert_dir = {}
    /\ server = NoServer

\* A machine without a hosts file: every apply stops at its backup step.
NoHostsFile ==
    hosts_file = [exists |-> FALSE, lines |-> <<>>, mtime |-> 0]

Init ==
    /\ InitTables
    /\ NoHostsFile
    /\ time_schedules = <<>>
    /\ now = [day |-> 0, time |-> 300]

----------------------------------------------------------------------------
(* Operations.                                                             *)

\* The steps of an apply that the environment may make fail: the copy to the
\* backup directory, the read of the hosts file, the write of the temporary
\* file.
IOFailures == {"none", "backup", "read", "write"}

\* An operation that touches neither the hosts file nor the firewall.
NoHostsEffect ==
    /\ applied' = NoApply
    /\ UNCHANGED <<hosts_file, backups, temporary_exceptions, chain, returned, requests>>

\* HostsFileManager.update_blocked_domains with the block set `domains`,
\* served without interruption.
apply_block_set(domains) ==
    \E fail \in IOFailures :
       LET r == update_blocked_domains(hosts_file, backups, domains, now, fail)
       IN  /\ r.hosts.mtime <= MaxWrites
           /\ hosts_file' = r.hosts
           /\ backups' = r.dir
           /\ applied' = [op |-> "apply", ok |-> r.ok, failed |-> r.failed,
                          domains |-> domains, before |-> hosts_file.lines]

\* ParentalControl._update_hosts_file with the block set `domains`.
update_hosts_file(domains) ==
    /\ apply_block_set(domains)
    /\ UNCHANGED <<temporary_exceptions, chain, returned, requests>>

\* The clock moves on: later the same day, or to the next day.
Tick ==
    /\ \E t \in Times :
          \/ t > now.time /\ now' = [now EXCEPT !.time = t]
          \/ now.day < MaxDay /\ now' = [day |-> now.day + 1, time |-> t]
    /\ UNCHANGED cache_modified
    /\ UNCHANGED others
    /\ last' = NoResult
    /\ UNCHANGED <<hosts_file, backups, temporary_exceptions, chain, returned, requests,
                   applied>>
    /\ UNCHANGED <<time_schedules, settings, daily_usage, blocked_sites,
                   blacklist_categories, blacklist_domains>>

\* TimeManager.add_schedule and ParentalControlDB.add_time_schedule.
add_schedule(start_time, end_time, days, is_active) ==
    /\ Len(time_schedules) < MaxSchedules
    /\ IF \A day \in days : 0 <= day /\ day <= 6
       THEN time_schedules' =
              Append(time_schedules,
                     [start_time |-> start_time, end_time |-> end_time,
                      days |-> days, is_active |-> is_active])
       ELSE UNCHANGED time_schedules
    /\ cache_modified' = (time_schedules' = time_schedules /\ cache_modified)
    /\ UNCHANGED others
    /\ last' = NoResult
    /\ NoHostsEffect
    /\ UNCHANGED <<now, settings, daily_usage, blocked_sites,
                   blacklist_categories, blacklist_domains>>

\* ParentalControlDB.update_time_schedule(schedule_id, is_active=...).
update_time_schedule(schedule_id, is_active) ==
    /\ schedule_id \in 1..Len(time_schedules)
    /\ time_schedules' =
         [time_schedules EXCEPT ![schedule_id].is_active = is_active]
    /\ cache_modified' = FALSE
    /\ UNCHANGED others
    /\ last' = NoResult
    /\ NoHostsEffect
    /\ UNCHANGED <<now, settings, daily_usage, blocked_sites,
                   blacklist_categories, blacklist_domains>>

\* ParentalControlDB.delete_time_schedule.
delete_time_schedule(schedule_id) ==
    /\ schedule_id \in 1..Len(time_schedules)
    /\ time_schedules' =
         SubSeq(time_schedules, 1, schedule_id - 1)
         \o SubSeq(time_schedules, schedule_id + 1, Len(time_schedules))
    /\ cache_modified' = FALSE
    /\ UNCHANGED others
    /\ last' = NoResult
    /\ NoHostsEffect
    /\ UNCHANGED <<now, settings, daily_usage, blocked_sites,
                   blacklist_categories, blacklist_domains>>

\* TimeManager.set_daily_limit and ParentalControlDB.set_daily_usage_limit.
set_daily_limit(minutes) ==
    /\ settings' = [has_limit |-> TRUE, time_limit_minutes |-> minutes,
                    is_active |-> TRUE]
    /\ cache_modified' = FALSE
    /\ UNCHANGED others
    /\ last' = NoResult
    /\ NoHostsEffect
    /\ UNCHANGED <<now, time_schedules, daily_usage, blocked_sites,
                   blacklist_categories, blacklist_domains>>

\* ParentalControlDB.update_settings(is_active=...).
update_settings(is_active) ==
    /\ settings' = [settings EXCEPT !.is_active = is_active]
    /\ cache_modified' = FALSE
    /\ UNCHANGED others
    /\ last' = NoResult
    /\ NoHostsEffect
    /\ UNCHANGED <<now, time_schedules, daily_usage, blocked_sites,
                   blacklist_categories, blacklist_domains>>

\* ParentalControlDB.add_blocked_site: refused when the domain is there.
db_add_blocked_site(table, domain, category) ==
    IF is_site_blocked(table, domain) THEN table
    ELSE Append(table, [domain |-> domain, category |-> category])

\* The /block_site handler: ParentalControl.add_blocked_site, which applies
\* the block set to the hosts file when the entry was added.
block_site(domain) ==
    LET sites == db_add_blocked_site(blocked_sites, domain,
                                     detect_category(domain))
    IN  /\ blocked_sites' = sites
        /\ IF sites # blocked_sites
           THEN update_hosts_file(
                   get_blocked_domains(sites, blacklist_categories,
                                       blacklist_domains))
           ELSE NoHostsEffect
        /\ cache_modified' = (blocked_sites' = blocked_sites /\ cache_modified)
        /\ UNCHANGED others
        /\ last' = NoResult
        /\ UNCHANGED <<now, time_schedules, settings, daily_usage,
                       blacklist_categories, blacklist_domains>>

\* The /add_blocked_site handler: the domain of the form is validated, and
\* an input that fails validation ends the request with a flash message.
add_blocked_site(domain_raw, category) ==
    LET domain == validate_domain(domain_raw)
        sites == IF domain.ok
                 THEN db_add_blocked_site(blocked_sites, domain.domain,
                                          category)
                 ELSE blocked_sites
    IN  /\ blocked_sites' = sites
        /\ IF sites # blocked_sites
           THEN update_hosts_file(
                   get_blocked_domains(sites, blacklist_categories,
                                       blacklist_domains))
           ELSE NoHostsEffect
        /\ cache_modified' = (blocked_sites' = blocked_sites /\ cache_modified)
        /\ UNCHANGED others
        /\ last' = NoResult
        /\ UNCHANGED <<now, time_schedules, settings, daily_usage,
                       blacklist_categories, blacklist_domains>>

\* The /remove_blocked_site handler: ParentalControlDB.remove_blocked_site
\* and, when a document was removed, the apply.
remove_blocked_site(domain) ==
    LET sites == SelectSeq(blocked_sites, LAMBDA e : e.domain # domain)
    IN  /\ blocked_sites' = sites
        /\ IF sites # blocked_sites
           THEN update_hosts_file(
                   get_blocked_domains(sites, blacklist_categories,
                                       blacklist_domains))
           ELSE NoHostsEffect
        /\ cache_modified' = FALSE
        /\ UNCHANGED others
        /\ last' = NoResult
        /\ UNCHANGED <<now, time_schedules, settings, daily_usage,
                       blacklist_categories, blacklist_domains>>

\* A toggle that forgets the domain count of the category it unblocks.
toggled_forgetful(categories, category_id, blocked) ==
    IF blocked /\ ~categories[category_id].domains_loaded
    THEN [success |-> FALSE, categories |-> categories]
    ELSE [success |-> TRUE,
          categories |-> [categories EXCEPT
                             ![category_id].is_active = blocked,
                             ![category_id].domain_count =
                                 IF blocked THEN @ ELSE 0]]

\* CategoryManager.toggle_category_blocking on the table: blocking a
\* category whose domains are not loaded is refused, otherwise is_active is
\* updated.
toggled(categories, category_id, blocked) ==
    IF blocked /\ ~categories[category_id].domains_loaded
    THEN [success |-> FALSE, categories |-> categories]
    ELSE [success |-> TRUE,
          categories |-> [categories EXCEPT
                             ![category_id].is_active = blocked]]

\* CategoryManager.toggle_category_blocking.
toggle_category_blocking(category_id, blocked) ==
    /\ blacklist_categories' =
         toggled(blacklist_categories, category_id, blocked).categories
    /\ cache_modified' =
         (blocked /\ ~blacklist_categories[category_id].domains_loaded
          /\ cache_modified)
    /\ UNCHANGED others
    /\ last' = NoResult
    /\ NoHostsEffect
    /\ UNCHANGED <<now, time_schedules, settings, daily_usage, blocked_sites,
                   blacklist_domains>>

\* ParentalControlDB.add_blacklist_domains: the category's documents are
\* removed and the list is inserted.
add_blacklist_domains(table, category, domains) ==
    SelectSeq(table, LAMBDA e : e.category # category)
    \o [i \in 1..Len(domains) |-> [domain |-> domains[i], category |-> category]]

\* What may fail in the store while a refresh is written: nothing, or the
\* insert of add_blacklist_domains.
StoreFailures == {"none", "store"}

\* CategoryManager.update_category with the list the download yields (an
\* empty list: download, extraction or parsing failed):
\* BlacklistManager.update_blacklist, which calls add_blacklist_category(
\* category, is_active=True) and add_blacklist_domains, then the metadata.
\* When the insert of add_blacklist_domains fails, the documents of the
\* category have been removed, it returns 0 and the refresh has failed.
refreshed(categories, table, category_id, domains, fail) ==
    IF categories[category_id].source # "ut1-blacklist" \/ domains = <<>>
    THEN [success |-> FALSE, categories |-> categories, table |-> table]
    ELSE IF fail = "store"
    THEN [success |-> FALSE,
          categories |-> [categories EXCEPT ![category_id].is_active = TRUE],
          table |-> SelectSeq(table, LAMBDA e : e.category # category_id)]
    ELSE [success |-> TRUE,
          categories |-> [categories EXCEPT
                             ![category_id].is_active = TRUE,
                             ![category_id].domains_loaded = TRUE,
                             ![category_id].domain_count = Len(domains)],
          table |-> add_blacklist_domains(table, category_id, domains)]

\* CategoryManager.update_category when the store takes every write.
update_category(category_id, domains) ==
    LET r == refreshed(blacklist_categories, blacklist_domains, category_id,
                       domains, "none")
    IN  /\ blacklist_domains' = r.table
        /\ blacklist_categories' = r.categories
        /\ cache_modified' =
             (blacklist_categories[category_id].source # "ut1-blacklist"
              /\ cache_modified)
        /\ UNCHANGED others
        /\ last' = NoResult
        /\ NoHostsEffect
        /\ UNCHANGED <<now, time_schedules, settings, daily_usage,
                       blocked_sites>>

\* The handler of /api/categories/<category_id>/update:
\* CategoryManager.update_category and, when it succeeded and the category
\* is blocked, the apply.  `returned` keeps what the category held before.
api_update_category(category_id, domains, fail) ==
    LET r == refreshed(blacklist_categories, blacklist_domains, category_id,
                       domains, fail)
    IN  /\ blacklist_domains' = r.table
        /\ blacklist_categories' = r.categories
        /\ cache_modified' =
             (blacklist_categories[category_id].source # "ut1-blacklist"
              /\ cache_modified)
        /\ IF r.success
           THEN apply_block_set(
                   get_blocked_domains(blocked_sites, r.categories, r.table))
           ELSE /\ applied' = NoApply
                /\ UNCHANGED <<hosts_file, backups>>
        /\ UNCHANGED <<temporary_exceptions, chain, requests>>
        /\ returned' = [op |-> "update_category", success |-> r.success,
                        category |-> category_id,
                        domains_before |->
                           {e.domain : e \in
                              {e \in Range(blacklist_domains) :
                                  e.category = category_id}},
                        count_before |->
                           blacklist_categories[category_id].domain_count]
        /\ UNCHANGED others
        /\ last' = NoResult
        /\ UNCHANGED <<now, time_schedules, settings, daily_usage,
                       blocked_sites>>

\* ParentalControlDB.set_blacklist_categories.
set_blacklist_categories(category_names) ==
    /\ blacklist_categories' =
         [c \in CategoryNames |->
            [blacklist_categories[c] EXCEPT !.is_active = (c \in category_names)]]
    /\ cache_modified' = TRUE
    /\ UNCHANGED others
    /\ last' = NoResult
    /\ NoHostsEffect
    /\ UNCHANGED <<now, time_schedules, settings, daily_usage, blocked_sites,
                   blacklist_domains>>

\* The handler of /api/categories/<category_id>/toggle:
\* CategoryManager.toggle_category_blocking and, when it succeeded, the
\* apply.
api_toggle_category(category_id, blocked) ==
    LET refused == blocked /\ ~blacklist_categories[category_id].domains_loaded
        categories == [blacklist_categories EXCEPT
                          ![category_id].is_active = blocked]
    IN  /\ IF refused
           THEN /\ UNCHANGED blacklist_categories
                /\ NoHostsEffect
           ELSE /\ blacklist_categories' = categories
                /\ update_hosts_file(
                      get_blocked_domains(blocked_sites, categories,
                                          blacklist_domains))
        /\ cache_modified' = (refused /\ cache_modified)
        /\ UNCHANGED others
        /\ last' = NoResult
        /\ UNCHANGED <<now, time_schedules, settings, daily_usage,
                       blocked_sites, blacklist_domains>>

\* The /blacklists handler with no category selected:
\* set_blacklist_categories([]) and the apply.
blacklists_none ==
    LET categories == [c \in CategoryNames |->
                          [blacklist_categories[c] EXCEPT !.is_active = FALSE]]
    IN  /\ blacklist_categories' = categories
        /\ update_hosts_file(
              get_blocked_domains(blocked_sites, categories,
                                  blacklist_domains))
        /\ cache_modified' = TRUE
        /\ UNCHANGED others
        /\ last' = NoResult
        /\ UNCHANGED <<now, time_schedules, settings, daily_usage,
                       blocked_sites, blacklist_domains>>

\* The /blacklists handler with the one category `category` selected, whose
\* download yields `domains`: BlacklistManager.update_blacklist, then, when
\* it succeeded, set_blacklist_categories([category]) and the apply.
blacklists(category, domains) ==
    LET table == add_blacklist_domains(blacklist_domains, category, domains)
        categories == [c \in CategoryNames |->
                          [blacklist_categories[c] EXCEPT
                              !.is_active = (c = category)]]
    IN  /\ IF domains # <<>>
           THEN /\ blacklist_domains' = table
                /\ blacklist_categories' = categories
                /\ update_hosts_file(
                      get_blocked_domains(blocked_sites, categories, table))
           ELSE /\ UNCHANGED <<blacklist_domains, blacklist_categories>>
                /\ NoHostsEffect
        /\ cache_modified' = (domains # <<>> \/ cache_modified)
        /\ UNCHANGED others
        /\ last' = NoResult
        /\ UNCHANGED <<now, time_schedules, settings, daily_usage,
                       blocked_sites>>

\* ParentalControl.start_blocking_server(port, https_port, use_https):
\* nothing when the server runs; else a new BlockingServer is started and,
\* when it started, update_hosts_for_blocking_server applies the block
\* set and the redirector (built at the first call) enables redirection.
start_blocking_server(use_https, fail) ==
    LET r == BlockingServer_start(server, cert_dir, use_https, fail)
        started == ~is_running(server) /\ r.success
        built == IF server.redirector THEN nat_chain
                 ELSE ensure_chain_exists(nat_chain)
    IN  /\ IF started
           THEN /\ apply_block_set(
                      get_blocked_domains(blocked_sites, blacklist_categories,
                                          blacklist_domains))
                /\ nat_chain' = enable_redirection(built, port).chain
                /\ server' = [r.server EXCEPT !.redirector = TRUE]
           ELSE /\ applied' = NoApply
                /\ server' = IF is_running(server) THEN server ELSE r.server
                /\ UNCHANGED <<hosts_file, backups, nat_chain>>
        /\ returned' = [op |-> "start_blocking_server",
                        success |-> is_running(server) \/ r.success,
                        was_running |-> is_running(server),
                        port_taken |-> server.http,
                        ca |-> ca_exists(cert_dir),
                        use_https |-> use_https, fail |-> fail]
        /\ UNCHANGED <<cache_modified, daemon, cert_dir>>
        /\ last' = NoResult
        /\ UNCHANGED <<temporary_exceptions, chain, requests>>
        /\ UNCHANGED <<now, time_schedules, settings, daily_usage,
                       blocked_sites, blacklist_categories, blacklist_domains>>

\* ParentalControl.stop_blocking_server: the server is stopped and the
\* redirector, when there is one, disables redirection.
stop_blocking_server ==
    /\ server' = BlockingServer_stop(server)
    /\ nat_chain' = IF server.redirector
                    THEN disable_redirection(nat_chain).chain
                    ELSE nat_chain
    /\ returned' = [NoReturn EXCEPT !.op = "stop_blocking_server",
                                    !.rules_before = Len(nat_chain.rules)]
    /\ applied' = NoApply
    /\ last' = NoResult
    /\ UNCHANGED <<cache_modified, daemon, cert_dir, hosts_file, backups,
                   temporary_exceptions, chain, requests>>
    /\ UNCHANGED <<now, time_schedules, settings, daily_usage, blocked_sites,
                   blacklist_categories, blacklist_domains>>

\* ParentalControl.temporarily_unblock: the exception is stored and sed
\* deletes the lines of the hosts file that hold the domain.
temporarily_unblock(domain, duration_minutes) ==
    LET file == remove_domain_block(hosts_file, domain)
    IN  /\ Len(temporary_exceptions) < MaxExceptions
        /\ file.mtime <= MaxWrites
        /\ temporary_exceptions' =
              Append(temporary_exceptions,
                     [domain |-> domain,
                      expiry_time |-> Stamp(now) + duration_minutes])
        /\ hosts_file' = file
        /\ applied' = [op |-> "unblock", ok |-> TRUE, failed |-> "",
                       domains |-> {domain}, before |-> hosts_file.lines]
        /\ cache_modified' = TRUE
        /\ UNCHANGED others
        /\ last' = NoResult
        /\ UNCHANGED <<now, time_schedules, settings, daily_usage,
                       blocked_sites, blacklist_categories, blacklist_domains,
                       backups, chain, returned, requests>>

\* HostsFileManager.restore_from_backup(): the most recent backup is
\* validated and written back.
hosts_restore_from_backup ==
    /\ IF backups = {}
       THEN /\ UNCHANGED hosts_file
            /\ applied' = [op |-> "restore", ok |-> FALSE,
                           failed |-> "backup", domains |-> {},
                           before |-> hosts_file.lines]
       ELSE \E backup \in most_recent_backups(backups), fail \in IOFailures :
               LET r == restore_from_backup(hosts_file, backup, fail)
               IN  /\ r.hosts.mtime <= MaxWrites
                   /\ hosts_file' = r.hosts
                   /\ applied' = [op |-> "restore", ok |-> r.ok,
                                  failed |-> r.failed, domains |-> {},
                                  before |-> hosts_file.lines]
    /\ UNCHANGED cache_modified
    /\ UNCHANGED others
    /\ last' = NoResult
    /\ UNCHANGED <<now, time_schedules, settings, daily_usage, blocked_sites,
                   blacklist_categories, blacklist_domains, backups,
                   temporary_exceptions, chain, returned, requests>>

\* Web requests served in threads of their own.  Each handler builds its
\* own ParentalControl, whose HostsFileManager creates its own lock: the
\* lock of the request `t`.
Lock(t) == t

\* The request is between the steps of update_blocked_domains.
InApply(t) == requests[t].pc \in {"backed_up", "read"}

\* with self._lock: the lock is free when no other request that uses the
\* same lock is inside.
lock_free(t) ==
    \A u \in Threads \ {t} : ~(InApply(u) /\ Lock(u) = Lock(t))

\* What the steps of a request leave alone.
RequestFrame ==
    /\ applied' = NoApply
    /\ UNCHANGED others
    /\ last' = NoResult
    /\ UNCHANGED <<now, time_schedules, settings, daily_usage,
                   blacklist_categories, blacklist_domains,
                   temporary_exceptions, chain, returned>>

\* The /add_blocked_site handler of request `t` up to the store: a domain
\* that is blocked already ends the request, otherwise it is added.
request_add_blocked_site(t, domain) ==
    /\ requests[t].pc = "idle"
    /\ IF is_site_blocked(blocked_sites, domain)
       THEN /\ requests' = [requests EXCEPT ![t].pc = "done"]
            /\ UNCHANGED blocked_sites
       ELSE /\ blocked_sites' = db_add_blocked_site(blocked_sites, domain,
                                                    "MANUAL")
            /\ requests' = [requests EXCEPT ![t].pc = "stored"]
    /\ cache_modified' = (blocked_sites' = blocked_sites /\ cache_modified)
    /\ RequestFrame
    /\ UNCHANGED <<hosts_file, backups>>

\* _update_hosts_file of request `t`: get_blocked_domains().
request_get_blocked_domains(t) ==
    /\ requests[t].pc = "stored"
    /\ requests' = [requests EXCEPT
          ![t].pc = "collected",
          ![t].domains = get_blocked_domains(blocked_sites,
                             blacklist_categories, blacklist_domains)]
    /\ UNCHANGED cache_modified
    /\ RequestFrame
    /\ UNCHANGED <<blocked_sites, hosts_file, backups>>

\* update_blocked_domains of request `t`: the lock is taken and the backup
\* made; a failed backup ends the apply.
request_backup(t) ==
    /\ requests[t].pc = "collected"
    /\ lock_free(t)
    /\ \E fail \in {"none", "backup"} :
          LET backup == backup_hosts_file(hosts_file, backups, now, fail)
          IN  /\ backups' = backup.dir
              /\ requests' = [requests EXCEPT
                    ![t].pc = IF backup.ok THEN "backed_up" ELSE "done"]
    /\ UNCHANGED cache_modified
    /\ RequestFrame
    /\ UNCHANGED <<blocked_sites, hosts_file>>

\* update_blocked_domains of request `t`: read_hosts_file.
request_read(t) ==
    /\ requests[t].pc = "backed_up"
    /\ \E fail \in {"none", "read"} :
          requests' = [requests EXCEPT
             ![t].pc = IF fail = "read" THEN "done" ELSE "read",
             ![t].content = IF fail = "read" THEN <<>> ELSE hosts_file.lines]
    /\ UNCHANGED cache_modified
    /\ RequestFrame
    /\ UNCHANGED <<blocked_sites, hosts_file, backups>>

\* update_blocked_domains of request `t`: the new content is built from the
\* content read, validated and written, and the lock is released.
request_write(t) ==
    /\ requests[t].pc = "read"
    /\ \E fail \in {"none", "write"} :
          LET r == update_blocked_domains(
                      [hosts_file EXCEPT !.lines = requests[t].content],
                      backups, requests[t].domains, now, fail)
              file == IF r.ok
                      THEN write_hosts_file_atomic(hosts_file, r.hosts.lines)
                      ELSE hosts_file
          IN  /\ file.mtime <= MaxWrites
              /\ hosts_file' = file
              /\ requests' = [requests EXCEPT ![t].pc = "done", ![t].ok = r.ok]
              /\ applied' = [op |-> "apply", ok |-> r.ok, failed |-> r.failed,
                             domains |-> requests[t].domains,
                             before |-> hosts_file.lines]
    /\ UNCHANGED cache_modified
    /\ UNCHANGED others
    /\ last' = NoResult
    /\ UNCHANGED <<now, time_schedules, settings, daily_usage, blocked_sites,
                   blacklist_categories, blacklist_domains, backups,
                   temporary_exceptions, chain, returned>>

\* What a firewall operation leaves alone.
FirewallFrame ==
    /\ UNCHANGED cache_modified
    /\ UNCHANGED others
    /\ last' = NoResult
    /\ applied' = NoApply
    /\ UNCHANGED <<now, time_schedules, settings, daily_usage, blocked_sites,
                   blacklist_categories, blacklist_domains, hosts_file,
                   backups, temporary_exceptions, requests>>

\* NetworkEnforcer(): a process builds its enforcer.
NetworkEnforcer_init ==
    /\ chain' = ensure_chain_exists(chain)
    /\ returned' = [NoReturn EXCEPT !.op = "init",
                                    !.rules_before = Len(chain.rules)]
    /\ FirewallFrame

\* enforcer.enable_time_restriction(reason).
Enable ==
    \E broken \in BrokenSets :
       LET r == enable_time_restriction(chain, broken)
       IN  /\ Len(r.chain.rules) <= MaxRules
           /\ chain' = r.chain
           /\ returned' = [NoReturn EXCEPT !.op = "enable",
                                           !.success = r.success,
                                           !.rules_before = Len(chain.rules),
                                           !.broken = broken]
           /\ FirewallFrame

\* enforcer.disable_time_restriction().
Disable ==
    \E broken \in BrokenSets :
       LET r == disable_time_restriction(chain, broken)
       IN  /\ chain' = r.chain
           /\ returned' = [NoReturn EXCEPT !.op = "disable",
                                           !.success = r.success,
                                           !.rules_before = Len(chain.rules),
                                           !.broken = broken]
           /\ FirewallFrame

\* enforcer.get_status().
Status ==
    \E broken \in BrokenSets :
       LET status == get_status(chain, broken)
       IN  /\ returned' = [op |-> "status", success |-> status.success,
                           enabled |-> status.enabled,
                           rules_count |-> status.rules_count,
                           rules_before |-> Len(chain.rules),
                           broken |-> broken]
           /\ UNCHANGED chain
           /\ FirewallFrame

\* enforcer.cleanup().
Cleanup ==
    LET r == cleanup(chain)
    IN  /\ chain' = r.chain
        /\ returned' = [NoReturn EXCEPT !.op = "cleanup",
                                        !.success = r.success,
                                        !.rules_before = Len(chain.rules)]
        /\ FirewallFrame

\* TimeEnforcementDaemon._check_and_enforce, a tick that no signal
\* interrupts: the rules are put in place when access is not allowed and
\* the chain has none, and flushed when access is allowed and the chain has
\* rules.  `enabled` records should_block.
check_and_enforce ==
    \E broken \in BrokenSets :
       LET should_block ==
             ~TimeManager_is_access_allowed(time_schedules, settings,
                                            daily_usage, now).allowed
           blocked == is_internet_blocked(chain, broken)
           r == IF should_block /\ ~blocked
                THEN enable_time_restriction(chain, broken)
                ELSE IF ~should_block /\ blocked
                THEN disable_time_restriction(chain, broken)
                ELSE [success |-> TRUE, chain |-> chain]
       IN  /\ Len(r.chain.rules) <= MaxRules
           /\ chain' = r.chain
           /\ returned' = [NoReturn EXCEPT !.op = "check",
                                           !.success = r.success,
                                           !.enabled = should_block,
                                           !.rules_before = Len(chain.rules),
                                           !.broken = broken]
           /\ FirewallFrame

\* The daemon, step by step.  Its process is down, about to run
\* _check_and_enforce ("tick"), inside enable_time_restriction before the
\* append of rule number `rule` ("enabling"), in time.sleep ("sleeping") or
\* gone through stop() ("exited").  The command that fails during a tick,
\* if one does, is chosen when the tick begins.
DaemonFrame ==
    /\ last' = NoResult
    /\ applied' = NoApply
    /\ UNCHANGED <<now, time_schedules, settings, daily_usage, blocked_sites,
                   blacklist_categories, blacklist_domains, hosts_file,
                   backups, temporary_exceptions, requests, cache_modified,
                   nat_chain, cert_dir, server>>

\* CachingMiddleware.read of a store instance that has read nothing yet:
\* the file is read, and every later read of the instance is answered from
\* this cache.
storage_read ==
    [time_schedules |-> time_schedules, daily_usage |-> daily_usage,
     settings |-> settings]

\* main(): TimeEnforcementDaemon() builds its store, which reads the file
\* when it initializes its tables, and its enforcer, installs the signal
\* handlers, and start() is about to make its first check.
daemon_start ==
    /\ daemon.pc \in {"down", "exited"}
    /\ chain' = ensure_chain_exists(chain)
    /\ daemon' = [NoDaemon EXCEPT !.pc = "tick", !.cache = storage_read]
    /\ returned' = NoReturn
    /\ DaemonFrame

\* _check_and_enforce up to the flush of enable_time_restriction, or to its
\* end when the rules are not to be put in place.
daemon_check ==
    /\ daemon.pc = "tick"
    /\ \E broken \in BrokenSets :
          LET read == daemon.cache
              should_block ==
                ~TimeManager_is_access_allowed(read.time_schedules,
                                               read.settings,
                                               read.daily_usage, now).allowed
              blocked == is_internet_blocked(chain, broken)
          IN  IF should_block /\ ~blocked
              THEN /\ chain' = clear_rules(chain, broken).chain
                   /\ daemon' = [daemon EXCEPT
                                    !.pc = "enabling", !.rule = 1,
                                    !.should_block = should_block,
                                    !.broken = broken]
              ELSE /\ chain' = IF ~should_block /\ blocked
                               THEN disable_time_restriction(chain,
                                                             broken).chain
                               ELSE chain
                   /\ daemon' = [daemon EXCEPT
                                    !.pc = "sleeping", !.rule = 0,
                                    !.should_block = should_block,
                                    !.broken = broken]
    /\ returned' = NoReturn
    /\ DaemonFrame

\* enable_time_restriction inside the tick: one iptables -A.
daemon_append ==
    /\ daemon.pc = "enabling"
    /\ LET r == add_rule(chain, daemon.rule, daemon.broken)
           over == \/ ~r.success /\ returns_false(daemon.rule)
                   \/ daemon.rule = Len(RULES)
       IN  /\ Len(r.chain.rules) <= MaxRules
           /\ chain' = r.chain
           /\ daemon' = IF over
                        THEN [daemon EXCEPT !.pc = "sleeping", !.rule = 0]
                        ELSE [daemon EXCEPT !.rule = daemon.rule + 1]
    /\ returned' = NoReturn
    /\ DaemonFrame

\* time.sleep(check_interval) is over.
daemon_wake ==
    /\ daemon.pc = "sleeping"
    /\ daemon' = [daemon EXCEPT !.pc = "tick"]
    /\ returned' = NoReturn
    /\ UNCHANGED chain
    /\ DaemonFrame

\* A stop() that exits without touching the firewall.
stop_exit_only(c, broken) == [success |-> TRUE, chain |-> c]

\* TimeEnforcementDaemon.stop up to sys.exit(0).
stop(c, broken) == disable_time_restriction(c, broken)

\* SIGTERM or SIGINT is delivered between two commands of the daemon
\* (_signal_handler), or the main loop catches an exception: stop().
daemon_stop ==
    /\ daemon.pc \in {"tick", "enabling", "sleeping"}
    /\ \E broken \in BrokenSets :
          LET r == stop(chain, broken)
          IN  /\ chain' = r.chain
              /\ returned' = [NoReturn EXCEPT
                                 !.op = "stop", !.success = r.success,
                                 !.rules_before = Len(chain.rules),
                                 !.broken = broken]
    /\ daemon' = [NoDaemon EXCEPT !.pc = "exited"]
    /\ DaemonFrame

\* The process is killed (SIGKILL, power loss): no handler runs.
daemon_killed ==
    /\ daemon.pc \in {"tick", "enabling", "sleeping"}
    /\ daemon' = NoDaemon
    /\ returned' = NoReturn
    /\ UNCHANGED chain
    /\ DaemonFrame

\* What an operation on the certificate directory leaves alone.
CertFrame ==
    /\ last' = NoResult
    /\ applied' = NoApply
    /\ UNCHANGED <<now, time_schedules, settings, daily_usage, blocked_sites,
                   blacklist_categories, blacklist_domains, hosts_file,
                   backups, temporary_exceptions, requests, chain,
                   cache_modified, daemon, nat_chain, server>>

\* CertificateGenerator().generate_cert(domain).
GenerateCert(domain, fail) ==
    LET r == generate_cert(cert_dir, domain, Stamp(now), fail)
    IN  /\ cert_dir' = r.files
        /\ returned' = [op |-> "generate_cert", domain |-> domain,
                        pair |-> r.pair,
                        cached |-> has_cert(cert_dir, domain),
                        ca |-> ca_exists(cert_dir),
                        files_before |-> cert_dir]
        /\ CertFrame

\* CertificateGenerator().cleanup_old_certs(days).
CleanupOldCerts(days) ==
    /\ cert_dir' = cleanup_old_certs(cert_dir, Stamp(now) - days * 1440)
    /\ returned' = [NoReturn EXCEPT !.op = "cleanup_old_certs"]
    /\ CertFrame

\* What an operation on the nat chain leaves alone.
RedirectFrame ==
    /\ last' = NoResult
    /\ applied' = NoApply
    /\ UNCHANGED <<now, time_schedules, settings, daily_usage, blocked_sites,
                   blacklist_categories, blacklist_domains, hosts_file,
                   backups, temporary_exceptions, requests, chain,
                   cache_modified, daemon, cert_dir, server>>

\* PortRedirector(blocking_server_port=port): a process builds its
\* redirector.
PortRedirector_init ==
    /\ nat_chain' = ensure_chain_exists(nat_chain)
    /\ returned' = [NoReturn EXCEPT !.op = "redirector",
                                    !.rules_before = Len(nat_chain.rules)]
    /\ RedirectFrame

\* redirector.enable_redirection() of the redirector that
\* start_blocking_server builds.
EnableRedirection ==
    LET r == enable_redirection(nat_chain, port)
    IN  /\ nat_chain' = r.chain
        /\ returned' = [NoReturn EXCEPT !.op = "enable_redirection",
                                        !.success = r.success,
                                        !.rules_before = Len(nat_chain.rules)]
        /\ RedirectFrame

\* redirector.disable_redirection().
DisableRedirection ==
    LET r == disable_redirection(nat_chain)
    IN  /\ nat_chain' = r.chain
        /\ returned' = [NoReturn EXCEPT !.op = "disable_redirection",
                                        !.success = r.success,
                                        !.rules_before = Len(nat_chain.rules)]
        /\ RedirectFrame

\* redirector.cleanup().
CleanupRedirection ==
    LET r == PortRedirector_cleanup(nat_chain)
    IN  /\ nat_chain' = r.chain
        /\ returned' = [NoReturn EXCEPT !.op = "cleanup_redirection",
                                        !.success = r.success,
                                        !.rules_before = Len(nat_chain.rules)]
        /\ RedirectFrame

\* ParentalControl.is_access_allowed(domain) in the store: the verdict,
\* the activity-log entry and, when a domain is allowed,
\* record_usage_time(minutes=1).
decided(domain, fail) ==
    LET verdict == DecideReading(domain, fail)
        used == get_todays_usage(daily_usage, Today)
        records == verdict.allowed /\ domain # NoDomain
    IN  /\ records => used + 1 <= MaxMinutes
        /\ daily_usage' = IF records
                          THEN record_daily_usage(daily_usage, Today, 1)
                          ELSE daily_usage
        /\ cache_modified' = IF records THEN FALSE
                             ELSE domain # NoDomain \/ cache_modified
        /\ last' = [op |-> "decide", domain |-> domain,
                    allowed |-> verdict.allowed, reason |-> verdict.reason,
                    log_action |-> verdict.log_action,
                    category |-> verdict.category, used_before |-> used,
                    store |-> fail]

\* ParentalControl.is_access_allowed(domain), called by a web handler.
is_access_allowed(domain, fail) ==
    /\ decided(domain, fail)
    /\ UNCHANGED others
    /\ NoHostsEffect
    /\ UNCHANGED <<now, time_schedules, settings, blocked_sites,
                   blacklist_categories, blacklist_domains>>

\* The response of do_GET when no block page is served.
PageNotFound == [url |-> NoDomain, reason |-> "", category |-> ""]

\* BlockingHandler.do_GET (and do_POST) for the Host header `host`:
\* is_domain_blocked and is_access_allowed are asked; the block page is a
\* 302 to /blocked with the parameters url, reason and category, anything
\* else is answered 404.
do_GET(host, fail) ==
    LET blocked == is_domain_blocked(blocked_sites, blacklist_categories,
                                     blacklist_domains, host)
        verdict == DecideReading(host, fail)
        serve_block_page == ~verdict.allowed \/ blocked.blocked
        block_category == IF blocked.categories # <<>>
                          THEN blocked.categories[1] ELSE "MANUAL"
    IN  /\ decided(host, fail)
        /\ returned' =
              [op |-> "do_GET", host |-> host,
               status |-> IF serve_block_page THEN 302 ELSE 404,
               params |-> IF serve_block_page
                          THEN [url |-> host, reason |-> verdict.reason,
                                category |-> block_category]
                          ELSE PageNotFound]
        /\ applied' = NoApply
        /\ UNCHANGED others
        /\ UNCHANGED <<hosts_file, backups, temporary_exceptions, chain,
                       requests>>
        /\ UNCHANGED <<now, time_schedules, settings, blocked_sites,
                       blacklist_categories, blacklist_domains>>

----------------------------------------------------------------------------
(* Specifications.                                                         *)

\* The lists a download yields: without repetition, of at most MaxListLen
\* domains.
DomainLists ==
    {l \in UNION {[1..n -> ListedDomains] : n \in 0..MaxListLen} :
        \A i, j \in 1..Len(l) : i # j => l[i] # l[j]}

ScheduleOps ==
    \/ \E s, e \in TimeStrs, d \in DaySets, a \in BOOLEAN :
          add_schedule(s, e, d, a)
    \/ \E id \in 1..MaxSchedules, a \in BOOLEAN : update_time_schedule(id, a)
    \/ \E id \in 1..MaxSchedules : delete_time_schedule(id)

LimitOps ==
    \/ \E m \in LimitInputs : set_daily_limit(m)
    \/ \E a \in BOOLEAN : update_settings(a)

BlockOps ==
    \/ \E d \in StoredDomains : block_site(d)
    \/ \E d \in StoredDomains, c \in FormCategories : add_blocked_site(d, c)
    \/ \E d \in StoredDomains : remove_blocked_site(d)
    \/ \E c \in CategoryNames, b \in BOOLEAN : toggle_category_blocking(c, b)
    \/ \E c \in CategoryNames, l \in DomainLists : update_category(c, l)
    \/ \E n \in SUBSET Ut1Names : set_blacklist_categories(n)

HostsOps ==
    \/ \E c \in CategoryNames, b \in BOOLEAN : api_toggle_category(c, b)
    \/ \E c \in CategoryNames, l \in DomainLists, fail \in StoreFailures :
          api_update_category(c, l, fail)
    \/ \E c \in Ut1Names, l \in DomainLists : blacklists(c, l)
    \/ blacklists_none
    \/ \E use_https \in BOOLEAN, fail \in ListenerFailures :
          start_blocking_server(use_https, fail)
    \/ \E d \in StoredDomains : temporarily_unblock(d, 60)
    \/ hosts_restore_from_backup

RequestOps ==
    \E t \in Threads :
       \/ \E d \in StoredDomains : request_add_blocked_site(t, d)
       \/ request_get_blocked_domains(t)
       \/ request_backup(t)
       \/ request_read(t)
       \/ request_write(t)

\* ParentalControl.is_access_allowed(domain) on listener thread `t`, up to
\* its log_activity: the time check, which reads today's usage under the
\* lock of the store and releases it, and the block lists.  A request that
\* is denied ends here; one that is allowed is about to record its minute.
decide_check(t, domain) ==
    /\ requests[t].pc = "idle"
    /\ requests' = IF Decide(domain).allowed /\ domain # NoDomain
                   THEN [requests EXCEPT ![t].pc = "allowed"]
                   ELSE requests
    /\ cache_modified' = (domain # NoDomain \/ cache_modified)
    /\ UNCHANGED <<daily_usage, returned>>
    /\ applied' = NoApply
    /\ UNCHANGED others
    /\ last' = NoResult
    /\ UNCHANGED <<hosts_file, backups, temporary_exceptions, chain>>
    /\ UNCHANGED <<now, time_schedules, settings, blocked_sites,
                   blacklist_categories, blacklist_domains>>

\* record_usage_time(minutes=1) of the request on thread `t`:
\* record_daily_usage takes the lock, reads the record, writes it and
\* flushes.
decide_record(t) ==
    /\ requests[t].pc = "allowed"
    /\ get_todays_usage(daily_usage, Today) + 1 <= MaxMinutes
    /\ daily_usage' = record_daily_usage(daily_usage, Today, 1)
    /\ requests' = [requests EXCEPT ![t].pc = "idle"]
    /\ cache_modified' = FALSE
    /\ UNCHANGED returned
    /\ applied' = NoApply
    /\ UNCHANGED others
    /\ last' = NoResult
    /\ UNCHANGED <<hosts_file, backups, temporary_exceptions, chain>>
    /\ UNCHANGED <<now, time_schedules, settings, blocked_sites,
                   blacklist_categories, blacklist_domains>>

FirewallOps ==
    \/ NetworkEnforcer_init
    \/ Enable
    \/ Disable
    \/ Status
    \/ Cleanup
    \/ check_and_enforce

DaemonOps ==
    \/ daemon_start
    \/ daemon_check
    \/ daemon_append
    \/ daemon_wake
    \/ daemon_stop
    \/ daemon_killed

RedirectOps ==
    \/ PortRedirector_init
    \/ EnableRedirection
    \/ DisableRedirection
    \/ CleanupRedirection

ServerOps ==
    \/ stop_blocking_server
    \/ \E d \in CertDomains, fail \in OpensslFailures : GenerateCert(d, fail)
    \/ \E days \in CertDays : CleanupOldCerts(days)

Next ==
    \/ Tick
    \/ ScheduleOps
    \/ LimitOps
    \/ BlockOps
    \/ HostsOps
    \/ RequestOps
    \/ FirewallOps
    \/ DaemonOps
    \/ RedirectOps
    \/ ServerOps
    \/ \E d \in RequestDomains \cup {NoDomain}, fail \in ReadFailures :
          is_access_allowed(d, fail)
    \/ \E d \in RequestDomains, fail \in ReadFailures : do_GET(d, fail)

Spec == Init /\ [][Next]_vars

\* The schedule evaluator: schedules are edited, the clock moves and the
\* time verdict is asked for.
NextSched ==
    \/ Tick
    \/ ScheduleOps
    \/ is_access_allowed(NoDomain, "none")

SpecSched == Init /\ [][NextSched]_vars

\* The Monday-and-Tuesday schedule 06:00-22:00.
WorkdaySchedule ==
    [start_time |-> "06:00", end_time |-> "22:00", days |-> {0, 1},
     is_active |-> TRUE]

\* Usage accounting: the store holds the schedule above, which may be
\* deleted; the cap is edited, the clock moves and requests are decided.
InitUsage ==
    /\ InitTables
    /\ NoHostsFile
    /\ time_schedules = <<WorkdaySchedule>>
    /\ now = [day |-> 0, time |-> 300]

NextUsage ==
    \/ Tick
    \/ LimitOps
    \/ delete_time_schedule(1)
    \/ \E d \in {NoDomain, example_com} : is_access_allowed(d, "none")

SpecUsage == InitUsage /\ [][NextUsage]_vars

\* The block lists: on a Monday at 07:00, inside the schedule above, or at
\* 23:30, outside of it, with no cap or a cap of one minute, the block
\* lists are edited and requests are decided.
InitBlock ==
    /\ InitTables
    /\ NoHostsFile
    /\ time_schedules = <<WorkdaySchedule>>
    /\ now \in {[day |-> 1, time |-> 420], [day |-> 1, time |-> 1410]}

NextBlock ==
    \/ BlockOps
    \/ \E m \in {1} : set_daily_limit(m)
    \/ \E d \in RequestDomains : is_access_allowed(d, "none")

SpecBlock == InitBlock /\ [][NextBlock]_vars

\* The schedule form: next to the schedule above, schedules are added from
\* any input and deleted, and the time verdict is asked for.
NextForm ==
    \/ \E s, e \in FormTimeStrs, d \in FormDaySets, a \in BOOLEAN :
          add_schedule(s, e, d, a)
    \/ \E id \in 1..MaxSchedules : delete_time_schedule(id)
    \/ is_access_allowed(NoDomain, "none")

SpecForm == InitUsage /\ [][NextForm]_vars

\* A store that fails: as for the usage accounting, but a read of the
\* store may raise while a request is decided.
NextReads ==
    \/ Tick
    \/ LimitOps
    \/ \E d \in {NoDomain, example_com}, fail \in ReadFailures :
          is_access_allowed(d, fail)

SpecReads == InitUsage /\ [][NextReads]_vars

\* The block page: on the same Monday, the manual list and the built-in
\* category are edited, a cap of one minute is set and the blocking
\* server answers requests.
\* The two listener threads of the blocking server decide requests with
\* one ParentalControl: the schedule above is stored, the daily cap is one
\* minute and stays, no minute is used yet, and the clock moves.
InitRace ==
    /\ settings = [has_limit |-> TRUE, time_limit_minutes |-> 1,
                   is_active |-> TRUE]
    /\ daily_usage = <<>>
    /\ time_schedules = <<WorkdaySchedule>>
    /\ blocked_sites = <<[domain |-> sub_example_com, category |-> "MANUAL"]>>
    /\ blacklist_categories =
         [c \in CategoryNames |->
            IF c \in BuiltinNames
            THEN [source |-> "built-in", is_active |-> FALSE,
                  domains_loaded |-> TRUE,
                  domain_count |-> Cardinality(BUILTIN_CATEGORIES(c))]
            ELSE [source |-> "ut1-blacklist", is_active |-> FALSE,
                  domains_loaded |-> FALSE, domain_count |-> 0]]
    /\ blacklist_domains = <<>>
    /\ temporary_exceptions = <<>>
    /\ now = [day |-> 0, time |-> 420]
    /\ NoHostsFile
    /\ backups = {}
    /\ last = NoResult
    /\ applied = NoApply
    /\ returned = NoReturn
    /\ requests = [t \in Threads |-> IdleRequest]
    /\ chain = NewChain
    /\ nat_chain = NoChain
    /\ daemon = NoDaemon
    /\ cache_modified = FALSE
    /\ cert_dir = {}
    /\ server = NoServer

NextRace ==
    \/ Tick
    \/ \E t \in Threads, d \in {NoDomain, example_com, sub_example_com} :
          decide_check(t, d)
    \/ \E t \in Threads : decide_record(t)

SpecRace == InitRace /\ [][NextRace]_vars

\* The daemon beside the web process: the clock stands at 07:00, the
\* dashboard adds and deletes schedules in its own store instance, which
\* flushes them to the file, and the daemon is started and ticks.  Every
\* iptables command of the ticks succeeds.
InitFollow ==
    /\ InitTables
    /\ NoHostsFile
    /\ time_schedules \in {<<>>, <<WorkdaySchedule>>}
    /\ now = [day |-> 1, time |-> 420]

NextFollow ==
    \/ \E d \in DaySets, a \in BOOLEAN : add_schedule("06:00", "22:00", d, a)
    \/ \E id \in 1..MaxSchedules : delete_time_schedule(id)
    \/ daemon_start
    \/ daemon_check /\ daemon'.broken = {}
    \/ daemon_append
    \/ daemon_wake

\* systemd starts the service; the main loop of start() comes back from
\* time.sleep and runs the tick to its end.
SpecFollow ==
    /\ InitFollow
    /\ [][NextFollow]_vars
    /\ WF_vars(daemon_start)
    /\ WF_vars(daemon_check /\ daemon'.broken = {})
    /\ WF_vars(daemon_append)
    /\ WF_vars(daemon_wake)

NextValidate ==
    \/ \E d \in RawDomains :
          Len(blocked_sites) < MaxSites /\ add_blocked_site(d, "MANUAL")
    \/ \E d \in RawDomains : Len(blocked_sites) < MaxSites /\ block_site(d)
    \/ \E i \in 1..Len(blocked_sites) :
          remove_blocked_site(blocked_sites[i].domain)

SpecValidate == InitBlock /\ [][NextValidate]_vars

\* The stored block list and the forms of the dashboard, requests decided.
NextPage ==
    \/ \E d \in StoredDomains : add_blocked_site(d, "MANUAL")
    \/ \E d \in StoredDomains : remove_blocked_site(d)
    \/ \E b \in BOOLEAN : toggle_category_blocking("social_media", b)
    \/ set_daily_limit(1)
    \/ \E d \in RequestDomains : do_GET(d, "none")

SpecPage == InitBlock /\ [][NextPage]_vars

\* Hosts files found on the machine; every one ends with a newline.  The
\* usual one with a line of the user's own for example.com, one with a
\* comment only, one whose loopback address names another host, and one
\* whose loopback address names localhost.localdomain only.
InitialHosts ==
    { <<HostEntry("127.0.0.1", <<localhost>>),
        HostEntry("10.0.0.5", <<example_com>>), BlankLine>>,
      <<CommentLine, BlankLine>>,
      <<HostEntry("127.0.0.1", << <<"myhost">> >>), BlankLine>>,
      <<HostEntry("127.0.0.1", <<localhost_localdomain>>), BlankLine>> }

\* Domains typed into the block forms, and lists a download yields.
HostsDomains == {example_com, localhost}
HostsLists == {<<>>, <<EXAMPLE_COM>>, <<bad_domain>>}

\* The hosts file: late on the last day blocks are added and removed, the
\* blocking server is started and the latest backup is restored.
InitHosts ==
    /\ InitTables
    /\ hosts_file \in {[exists |-> TRUE, lines |-> l, mtime |-> 0] :
                         l \in InitialHosts}
    /\ time_schedules = <<>>
    /\ now = [day |-> MaxDay, time |-> 1320]

NextHosts ==
    \/ Tick
    \/ \E d \in HostsDomains : block_site(d)
    \/ \E d \in HostsDomains : remove_blocked_site(d)
    \/ start_blocking_server(TRUE, "none")
    \/ hosts_restore_from_backup

SpecHosts == InitHosts /\ [][NextHosts]_vars

\* The managed section as a copy of the rule store: on the usual hosts
\* file, blocks are added and removed and categories toggled and set.
InitDerive ==
    /\ InitTables
    /\ hosts_file = [exists |-> TRUE,
                     lines |-> <<HostEntry("127.0.0.1", <<localhost>>),
                                 BlankLine>>,
                     mtime |-> 0]
    /\ time_schedules = <<>>
    /\ now = [day |-> MaxDay, time |-> 1410]

NextDerive ==
    \/ \E d \in HostsDomains : block_site(d)
    \/ \E d \in HostsDomains : remove_blocked_site(d)
    \/ \E b \in BOOLEAN : api_toggle_category("social_media", b)
    \/ \E l \in HostsLists : blacklists("adult", l)
    \/ blacklists_none

SpecDerive == InitDerive /\ [][NextDerive]_vars

\* A schedule of every day, 06:00-22:00.
EverydaySchedule ==
    [start_time |-> "06:00", end_time |-> "22:00", days |-> 0..6,
     is_active |-> TRUE]

\* Temporary exceptions: at 07:00 of the last day, inside the schedule,
\* example.com is blocked and the hosts file is as the apply of that block
\* at 06:00 wrote it over the usual file.  Another domain is blocked, a
\* domain is unblocked for an hour, the blocking server is started, requests
\* are decided and the clock moves.
InitExc ==
    LET usual == [exists |-> TRUE,
                  lines |-> <<HostEntry("127.0.0.1", <<localhost>>),
                              HostEntry("10.0.0.5", <<example_com>>),
                              BlankLine>>,
                  mtime |-> 0]
        first == update_blocked_domains(usual, {}, {example_com},
                                        [day |-> MaxDay, time |-> 360], "none")
    IN  /\ settings = [has_limit |-> FALSE, time_limit_minutes |-> 0,
                       is_active |-> TRUE]
        /\ daily_usage = <<>>
        /\ blocked_sites = db_add_blocked_site(<<>>, example_com,
                                               detect_category(example_com))
        /\ blacklist_categories =
             [c \in CategoryNames |->
                IF c \in BuiltinNames
                THEN [source |-> "built-in", is_active |-> FALSE,
                      domains_loaded |-> TRUE,
                      domain_count |-> Cardinality(BUILTIN_CATEGORIES(c))]
                ELSE [source |-> "ut1-blacklist", is_active |-> FALSE,
                      domains_loaded |-> FALSE, domain_count |-> 0]]
        /\ blacklist_domains = <<>>
        /\ temporary_exceptions = <<>>
        /\ last = NoResult
        /\ hosts_file = first.hosts
        /\ backups = first.dir
        /\ chain = NewChain
        /\ returned = NoReturn
        /\ requests = [t \in Threads |-> IdleRequest]
        /\ applied = NoApply
        /\ cache_modified = FALSE
        /\ nat_chain = NoChain
        /\ daemon = NoDaemon
        /\ cert_dir = {}
        /\ server = NoServer
        /\ time_schedules = <<EverydaySchedule>>
        /\ now = [day |-> MaxDay, time |-> 420]

NextExc ==
    \/ Tick
    \/ block_site(sub_example_com)
    \/ \E d \in HostsDomains : temporarily_unblock(d, 60)
    \/ start_blocking_server(TRUE, "none")
    \/ is_access_allowed(example_com, "none")

SpecExc == InitExc /\ [][NextExc]_vars

\* Two requests to /add_blocked_site served at the same time on the usual
\* hosts file.
InitConc ==
    /\ InitTables
    /\ hosts_file = [exists |-> TRUE,
                     lines |-> <<HostEntry("127.0.0.1", <<localhost>>),
                                 BlankLine>>,
                     mtime |-> 0]
    /\ time_schedules = <<>>
    /\ now = [day |-> MaxDay, time |-> 1410]

NextConc == RequestOps

SpecConc == InitConc /\ [][NextConc]_vars

\* The firewall: with the Monday-and-Tuesday schedule stored, processes
\* build their enforcer, the rules are enabled, disabled, counted and
\* cleaned up, the daemon checks, and the clock moves.
InitNet ==
    /\ InitTables
    /\ NoHostsFile
    /\ time_schedules = <<WorkdaySchedule>>
    /\ now = [day |-> 0, time |-> 300]

NextNet == Tick \/ FirewallOps

SpecNet == InitNet /\ [][NextNet]_vars

\* The two chains and their constructors: enforcers and redirectors are
\* built, the redirection is enabled and disabled, the chains are cleaned
\* up, on a machine that starts without either chain.
InitNat ==
    /\ InitTables
    /\ NoHostsFile
    /\ time_schedules = <<WorkdaySchedule>>
    /\ now = [day |-> 0, time |-> 300]

NextNat ==
    \/ Tick
    \/ NetworkEnforcer_init
    \/ Cleanup
    \/ RedirectOps

SpecNat == InitNat /\ [][NextNat]_vars

\* The blocking server: late on the last day, on a machine with or without
\* the files of the root CA, the server is started and stopped.
CAFiles ==
    {[dir |-> "certs", name |-> <<"ca">>, ext |-> e, mtime |-> 0] :
        e \in {"crt", "key"}}

InitServer ==
    /\ settings = [has_limit |-> FALSE, time_limit_minutes |-> 0,
                   is_active |-> TRUE]
    /\ daily_usage = <<>>
    /\ time_schedules = <<>>
    /\ blocked_sites = <<[domain |-> example_com, category |-> "MANUAL"]>>
    /\ blacklist_categories =
         [c \in CategoryNames |->
            IF c \in BuiltinNames
            THEN [source |-> "built-in", is_active |-> FALSE,
                  domains_loaded |-> TRUE,
                  domain_count |-> Cardinality(BUILTIN_CATEGORIES(c))]
            ELSE [source |-> "ut1-blacklist", is_active |-> FALSE,
                  domains_loaded |-> FALSE, domain_count |-> 0]]
    /\ blacklist_domains = <<>>
    /\ temporary_exceptions = <<>>
    /\ now = [day |-> MaxDay, time |-> 1260]
    /\ hosts_file = [exists |-> TRUE,
                     lines |-> <<HostEntry("127.0.0.1", <<localhost>>),
                                 BlankLine>>,
                     mtime |-> 0]
    /\ backups = {}
    /\ last = NoResult
    /\ applied = NoApply
    /\ returned = NoReturn
    /\ requests = [t \in Threads |-> IdleRequest]
    /\ chain = NewChain
    /\ nat_chain = NoChain
    /\ daemon = NoDaemon
    /\ cache_modified = FALSE
    /\ cert_dir \in SUBSET CAFiles
    /\ server = NoServer

NextServer ==
    \/ Tick
    \/ \E use_https \in BOOLEAN, fail \in ListenerFailures :
          start_blocking_server(use_https, fail)
    \/ stop_blocking_server

SpecServer == InitServer /\ [][NextServer]_vars

\* The certificates: on the same machine, with no certificate yet,
\* certificates are generated and cleaned up.
NextCert ==
    \/ Tick
    \/ \E d \in CertDomains, fail \in OpensslFailures : GenerateCert(d, fail)
    \/ \E days \in CertDays : CleanupOldCerts(days)

SpecCert == InitServer /\ [][NextCert]_vars

\* The daemon: it is started, ticks, is stopped by a signal or killed, and
\* started again, while the clock moves in and out of the schedule.
InitDaemon ==
    /\ InitTables
    /\ NoHostsFile
    /\ time_schedules = <<WorkdaySchedule>>
    /\ now = [day |-> 0, time |-> 300]

NextDaemon == Tick \/ DaemonOps

SpecDaemon == InitDaemon /\ [][NextDaemon]_vars

\* The Rule Store and its file: schedules, blocked sites, exceptions and
\* categories are written through the handlers, on a machine without a
\* hosts file.
InitStore ==
    /\ InitTables
    /\ NoHostsFile
    /\ time_schedules = <<>>
    /\ now = [day |-> 0, time |-> 300]

NextStore ==
    \/ \E d \in DaySets : add_schedule("06:00", "22:00", d, TRUE)
    \/ add_blocked_site(example_com, "MANUAL")
    \/ temporarily_unblock(example_com, 60)
    \/ \E n \in SUBSET Ut1Names : set_blacklist_categories(n)
    \/ \E l \in DomainLists : update_category("adult", l)
    \/ \E l \in DomainLists, fail \in StoreFailures :
          api_update_category("adult", l, fail)
    \/ \E b \in BOOLEAN : toggle_category_blocking("adult", b)

SpecStore == InitStore /\ [][NextStore]_vars

----------------------------------------------------------------------------
(* The schedule evaluator as specified.                                    *)

\* Minutes since midnight of a valid "HH:MM".
Minutes(hhmm) ==
    CASE hhmm = "00:00" -> 0
      [] hhmm = "06:00" -> 6 * 60
      [] hhmm = "22:00" -> 22 * 60
      [] hhmm = "23:59" -> 23 * 60 + 59

Overnight(s) == Minutes(s.start_time) > Minutes(s.end_time)

\* InWindow of an overnight schedule: the evening of a listed day or the
\* morning after a listed day.
InOvernightWindow(clock, s) ==
    \/ /\ Weekday(clock.day) \in s.days
       /\ clock.time >= Minutes(s.start_time)
    \/ /\ ((Weekday(clock.day) + 6) % 7) \in s.days
       /\ clock.time <= Minutes(s.end_time)

\* InWindow of a same-day schedule.
InSameDayWindow(clock, s) ==
    /\ Weekday(clock.day) \in s.days
    /\ Minutes(s.start_time) <= clock.time
    /\ clock.time <= Minutes(s.end_time)

InWindow(clock, s) ==
    IF Overnight(s) THEN InOvernightWindow(clock, s)
    ELSE InSameDayWindow(clock, s)

ActiveSchedules ==
    {i \in 1..Len(time_schedules) : time_schedules[i].is_active}

\* Some active schedule covers the clock reading.
Covered == \E i \in ActiveSchedules : InWindow(now, time_schedules[i])

Decided == last.op = "decide"

----------------------------------------------------------------------------
(* Claims.                                                                 *)

\* C1: when no schedule is configured at all, a decision is never the
\* denial "Outside of allowed schedule".
C1_NoScheduleNeverOutside ==
    (Decided /\ time_schedules = <<>>)
        => last.reason # "Outside of allowed schedule"

\* C4: when every active schedule is an overnight one, the decision allows
\* exactly when the clock is in the evening of a listed day at or after the
\* start, or in the morning after a listed day at or before the end, of
\* one of them.
C4_OvernightWindow ==
    (/\ Decided
     /\ ActiveSchedules # {}
     /\ \A i \in ActiveSchedules : Overnight(time_schedules[i]))
        => (last.allowed <=>
              \E i \in ActiveSchedules :
                 InOvernightWindow(now, time_schedules[i]))

\* C4 witness: the Monday schedule 22:00-06:00 has allowed a request on
\* Tuesday at 06:00.
C4_Witness ==
    /\ Decided
    /\ last.allowed
    /\ ActiveSchedules # {}
    /\ \A i \in ActiveSchedules :
          /\ Overnight(time_schedules[i])
          /\ time_schedules[i].days = {0}
    /\ Weekday(now.day) = 1
    /\ now.time = 360

\* C5: with at least one schedule configured the decision allows exactly
\* when an active schedule covers the clock reading, and denies with
\* "Outside of allowed schedule" otherwise.
C5_AnyActiveScheduleCovers ==
    (Decided /\ time_schedules # <<>>)
        => /\ last.allowed <=> Covered
           /\ ~last.allowed => last.reason = "Outside of allowed schedule"

\* C5 witness: of two schedules the inactive one covers the clock reading,
\* the active one does not, and the request was denied.
C5_Witness ==
    /\ Decided
    /\ ~last.allowed
    /\ Len(time_schedules) = 2
    /\ \E i, j \in 1..2 :
          /\ ~time_schedules[i].is_active
          /\ InWindow(now, time_schedules[i])
          /\ time_schedules[j].is_active
          /\ ~InWindow(now, time_schedules[j])

\* The cap in force: configured, active, and reached by the minutes used
\* today when the latest decision was taken.
CapReached ==
    /\ settings.has_limit
    /\ settings.is_active
    /\ last.used_before >= settings.time_limit_minutes

MinutesUsed(date) == get_todays_usage(daily_usage, date)

\* C10, in every state: an allowed decision on a domain has added exactly
\* one minute to today's usage, any other decision has added nothing, and no
\* two usage records have the same date.
C10_Accounting ==
    /\ (Decided /\ last.allowed /\ last.domain # NoDomain)
          => MinutesUsed(Today) = last.used_before + 1
    /\ (Decided /\ ~last.allowed)
          => MinutesUsed(Today) = last.used_before
    /\ \A i, j \in 1..Len(daily_usage) :
          i # j => daily_usage[i].date # daily_usage[j].date

\* C10, in every step: the usage of no date decreases.
C10_NeverDecreases ==
    \A date \in 0..MaxDay :
       get_todays_usage(daily_usage', date) >= MinutesUsed(date)

TimeChecksPass ==
    /\ time_schedules = <<>> \/ Covered
    /\ ~CapReached

\* The domain itself and its parent domains: the suffix walk.
Suffixes(domain) ==
    {parent_domain(domain, k) : k \in 0..(Len(domain) - 1)}

\* A manual entry for the domain or for one of its parents.
ManualHit(domain) ==
    \E p \in Suffixes(domain) : is_site_blocked(blocked_sites, p)

\* The nearest manually blocked suffix of the domain.
NearestManual(domain) ==
    LET hits == {k \in 0..(Len(domain) - 1) :
                    is_site_blocked(blocked_sites, parent_domain(domain, k))}
    IN  parent_domain(domain, CHOOSE k \in hits : \A j \in hits : k <= j)

\* An active built-in category lists the domain or one of its parents.
BuiltinHit(domain) ==
    \E c \in BuiltinNames :
       /\ blacklist_categories[c].is_active
       /\ Suffixes(domain) \cap BUILTIN_CATEGORIES(c) # {}

\* An active category of the external blacklists lists the domain or one
\* of its parents in `table`.
ListHit(table, domain) ==
    \E i \in 1..Len(table) :
       /\ table[i].domain \in Suffixes(domain)
       /\ blacklist_categories[table[i].category].is_active

\* C3: when the schedule and usage checks pass, a request for a domain
\* that has a manual entry, for itself or for one of its parents, is denied,
\* and the category reported with the block is the one stored on the
\* nearest such entry.
C3_ManualBlockHierarchical ==
    (Decided /\ last.domain # NoDomain /\ TimeChecksPass
       /\ ManualHit(last.domain))
        => /\ ~last.allowed
           /\ is_domain_blocked(blocked_sites, blacklist_categories,
                                blacklist_domains, last.domain).categories
                = <<manual_category(blocked_sites,
                                    NearestManual(last.domain))>>

\* C7: when the schedule and usage checks pass, a request for a domain
\* that an active built-in category lists, itself or by a parent, is denied;
\* and a denial then has a cause among the manual entries, the active
\* built-in categories and the active blacklists.
C7_BuiltinCategoryDenies ==
    (Decided /\ last.domain # NoDomain /\ TimeChecksPass)
        => /\ BuiltinHit(last.domain) => ~last.allowed
           /\ ~last.allowed =>
                 \/ ManualHit(last.domain)
                 \/ BuiltinHit(last.domain)
                 \/ ListHit(blacklist_domains, last.domain)

\* C8: the blacklist check blocks a domain exactly when the domain or one
\* of its parents is listed in an active category, whatever the entries of
\* the inactive categories are.
C8_ActiveCategoriesOnly ==
    \A d \in RequestDomains :
       is_domain_in_blacklist(blacklist_categories, blacklist_domains, d).blocked
          <=> ListHit(blacklist_domains, d)

\* The documents of `table` at the positions in `keep`, in their order.
Restrict(table, keep) ==
    LET F[i \in 0..Len(table)] ==
          IF i = 0 THEN <<>>
          ELSE IF i \in keep THEN Append(F[i - 1], table[i])
          ELSE F[i - 1]
    IN  F[Len(table)]

\* The decision on `domain` with the manual entries `sites` and the
\* blacklist entries `table`, everything else as in the current state.
DecideWith(sites, table, domain) ==
    ParentalControl_is_access_allowed(
        TimeManager_is_access_allowed(time_schedules, settings, daily_usage, now),
        sites, blacklist_categories, table, domain)

\* C9: with the time and usage state fixed, a domain that is denied with a
\* part of the manual entries and of the blacklist entries of the store is
\* denied with all of them.
C9_BlockingMonotone ==
    \A keep_sites \in SUBSET (1..Len(blocked_sites)),
       keep_domains \in SUBSET (1..Len(blacklist_domains)),
       d \in RequestDomains :
          ~DecideWith(Restrict(blocked_sites, keep_sites),
                      Restrict(blacklist_domains, keep_domains), d).allowed
             => ~Decide(d).allowed

\* C6: a decision is the one of the first check that matches, in the order
\* schedule, daily usage, manual entries, built-in categories, external
\* blacklists: outside of the schedules the reason is the schedule's even
\* for a blocked domain, a reached cap is reported next, a manual entry for
\* the domain or a parent is reported before any category, and a built-in
\* category before the external blacklists.
C6_FirstMatchOrder ==
    Decided =>
       /\ (time_schedules # <<>> /\ ~Covered)
             => last.reason = "Outside of allowed schedule"
       /\ (Covered /\ CapReached)
             => last.reason = "Daily usage limit reached"
       /\ (last.domain # NoDomain /\ TimeChecksPass /\ ManualHit(last.domain)
             /\ (BuiltinHit(last.domain)
                   \/ ListHit(blacklist_domains, last.domain)))
             => /\ ~last.allowed
                /\ last.reason = "Blocked by manual site blocking"
       /\ (last.domain # NoDomain /\ TimeChecksPass
             /\ ~ManualHit(last.domain) /\ BuiltinHit(last.domain)
             /\ ListHit(blacklist_domains, last.domain))
             => /\ ~last.allowed
                /\ last.reason # "Blocked by categories"

----------------------------------------------------------------------------
(* The hosts file as specified.                                            *)

\* The lines from the first start marker to the last end marker.
ManagedSection(lines) ==
    LET starts == {i \in 1..Len(lines) : lines[i].kind = "start"}
        ends == {i \in 1..Len(lines) : lines[i].kind = "end"}
    IN  IF starts = {} \/ ends = {} THEN <<>>
        ELSE SubSeq(lines, CHOOSE i \in starts : \A j \in starts : i <= j,
                           CHOOSE i \in ends : \A j \in ends : j <= i)

\* The lines that are neither a marker nor between a start marker and the
\* next end marker.
OutsideSection(lines) ==
    LET inside(i) ==
          \E j \in 1..i :
             /\ lines[j].kind = "start"
             /\ \A k \in (j + 1)..i : lines[k].kind # "end"
        kept == SelectSeq([i \in 1..Len(lines) |-> [at |-> i, line |-> lines[i]]],
                          LAMBDA e : e.line.kind # "end" /\ ~inside(e.at))
    IN  [i \in 1..Len(kept) |-> kept[i].line]

\* The file has the entry 127.0.0.1 -> localhost and an entry of the IPv6
\* loopback address with one of its names.
HasLoopback(lines) ==
    /\ \E i \in 1..Len(lines) :
          /\ lines[i].kind = "entry"
          /\ lines[i].ip = "127.0.0.1"
          /\ localhost \in Range(lines[i].hostnames)
    /\ \E i \in 1..Len(lines) :
          /\ lines[i].kind = "entry"
          /\ lines[i].ip = "::1"
          /\ Range(lines[i].hostnames)
               \cap {localhost, ip6_localhost, ip6_loopback} # {}

\* The step is an apply, and one that succeeded.
ApplyStep == applied'.op = "apply"
ApplySucceeds == ApplyStep /\ applied'.ok

\* C11: applying the same domain set twice, at any two times, produces
\* identical managed sections.  The hosts file still holds the result of
\* the previous successful apply while `applied` records it.
C11_ApplyIdempotent ==
    [][(/\ applied.op = "apply" /\ applied.ok
        /\ ApplySucceeds
        /\ applied'.domains = applied.domains)
       => ManagedSection(hosts_file'.lines) = ManagedSection(hosts_file.lines)]_vars

\* C12: after every successful apply, whatever the file held before, the
\* file has the loopback entries, and no apply removes them from a file
\* that has them.
C12_LoopbackAfterApply ==
    (applied.op = "apply" /\ applied.ok) => HasLoopback(hosts_file.lines)

C12_LoopbackNeverRemoved ==
    [][(ApplyStep /\ HasLoopback(hosts_file.lines))
       => HasLoopback(hosts_file'.lines)]_vars

C12_LoopbackEntries == []C12_LoopbackAfterApply /\ C12_LoopbackNeverRemoved

\* A successful apply on a file that had no entry 127.0.0.1 -> localhost.
C12_Witness ==
    /\ applied.op = "apply" /\ applied.ok
    /\ ~validate_hosts_content(applied.before)

\* C13: an apply leaves the lines outside the managed section as they
\* were, missing system entries apart; checked here on the applies to a file
\* that already has a managed section and all system entries.
C13_OutsideUnchanged ==
    [][(/\ ApplySucceeds
        /\ ManagedSection(hosts_file.lines) # <<>>
        /\ ensure_system_entries(hosts_file.lines) = hosts_file.lines)
       => OutsideSection(hosts_file'.lines) = OutsideSection(hosts_file.lines)]_vars

\* C14: when the backup, the read, the validation or the write of an apply
\* fails, the apply returns False and the hosts file is what it was.
C14_FailureLeavesFile ==
    [][ApplyStep
       => /\ applied'.ok <=> applied'.failed = ""
          /\ ~applied'.ok => hosts_file' = hosts_file]_vars

\* An apply whose validation failed, on a file that exists.
C14_Witness ==
    /\ applied.op = "apply" /\ ~applied.ok /\ applied.failed = "validate"
    /\ hosts_file.exists

\* C19: restore_from_backup() after a successful apply puts back the
\* content the file had before that apply; a backup whose content fails
\* validation is refused and the file stays as it is.  Here `applied` still
\* records the apply when the restore starts; a restore that the
\* environment makes fail leaves the file as well.
C19_RestoreAfterApply ==
    [][applied'.op = "restore"
       => /\ (applied.op = "apply" /\ applied.ok
                 /\ applied'.failed \notin {"read", "write"})
             => /\ applied'.ok <=> validate_hosts_content(applied.before)
                /\ applied'.ok => hosts_file'.lines = applied.before
          /\ applied'.failed = "validate" => ~applied'.ok
          /\ ~applied'.ok => hosts_file' = hosts_file]_vars

\* A restore that undid what an apply had written.
C19_Witness ==
    /\ applied.op = "restore" /\ applied.ok
    /\ hosts_file.lines # applied.before
    /\ ManagedSection(applied.before) # <<>>

\* The block set of the rule store: the manual blocks, the domains of the
\* active external categories and those of the active built-in categories.
RuleStoreDomains ==
    {e.domain : e \in Range(blocked_sites)}
    \cup {e.domain : e \in {x \in Range(blacklist_domains) :
                              blacklist_categories[x.category].is_active}}
    \cup UNION {BUILTIN_CATEGORIES(c) :
                  c \in {n \in BuiltinNames : blacklist_categories[n].is_active}}

\* The valid domains of the block set that are not system names, in lower
\* case.
ValidDomains ==
    {lower(d) : d \in {e \in RuleStoreDomains :
        /\ e # <<>>
        /\ "bad_host" \notin Range(e)
        /\ lower(e) \notin {localhost, localhost_localdomain}}}

\* The entries of the managed section.
SectionEntries ==
    SelectSeq(ManagedSection(hosts_file.lines), LAMBDA l : l.kind = "entry")

\* The place of a domain in the order of the strings.
Place(d) == CHOOSE i \in 1..Len(DomainOrder) : DomainOrder[i] = d

\* C16: after an operation on the rule store whose apply succeeded, the
\* managed section lists exactly the valid non-system domains of the block
\* set, each once, in order, each mapped to 127.0.0.1; with an empty block
\* set the file has no managed section.
C16_SectionIsDerivedCopy ==
    (applied.op = "apply" /\ applied.ok)
    => /\ \A i \in 1..Len(SectionEntries) :
             /\ SectionEntries[i].ip = "127.0.0.1"
             /\ Len(SectionEntries[i].hostnames) = 1
       /\ {SectionEntries[i].hostnames[1] : i \in 1..Len(SectionEntries)}
            = ValidDomains
       /\ \A i, j \in 1..Len(SectionEntries) :
             i < j => Place(SectionEntries[i].hostnames[1])
                        < Place(SectionEntries[j].hostnames[1])
       /\ RuleStoreDomains = {} => ManagedSection(hosts_file.lines) = <<>>
       /\ \A i \in 1..Len(hosts_file.lines) :
             hosts_file.lines[i].kind \in {"start", "end"}
             => Len(SelectSeq(hosts_file.lines,
                      LAMBDA l : l.kind = hosts_file.lines[i].kind)) = 1

\* A category is active next to a manual block whose domain a list names
\* in capitals, and the section was written.
C16_Witness ==
    /\ applied.op = "apply" /\ applied.ok
    /\ blacklist_categories["social_media"].is_active
    /\ blacklist_categories["adult"].is_active
    /\ blocked_sites # <<>>
    /\ Cardinality(RuleStoreDomains) > Cardinality(ValidDomains)

\* The block set was emptied and the section is gone.
C16_WitnessEmpty ==
    /\ applied.op = "apply" /\ applied.ok
    /\ RuleStoreDomains = {}
    /\ ManagedSection(applied.before) # <<>>

\* C15: every change of the hosts file is made by the validated atomic
\* write of an apply or a restore and leaves the lines outside the managed
\* section in place, so the file always has its loopback entry.
C15_OnlyValidatedWrites ==
    [][hosts_file'.lines # hosts_file.lines
       => /\ applied'.op \in {"apply", "restore"}
          /\ validate_hosts_content(hosts_file'.lines)
          /\ \A l \in Range(OutsideSection(hosts_file.lines)) :
                l \in Range(OutsideSection(hosts_file'.lines))]_vars

\* The temporary exceptions that have not expired.
ActiveExceptions ==
    {e \in Range(temporary_exceptions) : e.expiry_time > Stamp(now)}

\* C17: while a temporary exception for a domain has not expired, the domain
\* is not in the managed section, whatever re-applied the block set since,
\* and a request for it is not denied as blocked.
C17_ExceptionOverrides ==
    \A e \in ActiveExceptions :
       /\ \A l \in Range(SectionEntries) : e.domain \notin Range(l.hostnames)
       /\ (last.op = "decide" /\ last.domain = e.domain)
          => last.reason \notin {"Blocked by manual site blocking",
                                 "Blocked by categories"}

\* C18: the steps of two applies never interleave, and when the requests
\* have completed their applies the managed section lists the block set the
\* rule store holds then.
C18_AppliesSerialized ==
    /\ \A t, u \in Threads : (InApply(t) /\ InApply(u)) => t = u
    /\ (\A t \in Threads : requests[t].pc = "done" /\ requests[t].ok)
       => {l.hostnames[1] : l \in Range(SectionEntries)} = ValidDomains

\* C20: on the chain, Enable followed by Disable leaves no rule, and Status
\* then reports enabled false and a rule count of 0; Disable on a chain
\* without rules succeeds and changes nothing (the iptables commands of
\* Disable and Status being served).
C20_DisableEmpties ==
    [][(returned'.op = "disable" /\ chain.exists /\ returned'.broken = {})
       => /\ returned'.success
          /\ chain'.rules = <<>>
          /\ chain.rules = <<>> => chain' = chain]_vars

C20_StatusCountsRules ==
    (returned.op = "status" /\ returned.success)
    => /\ returned.rules_count = Len(chain.rules)
       /\ returned.enabled <=> chain.rules # <<>>

C20_EnableDisable == []C20_StatusCountsRules /\ C20_DisableEmpties

\* A Disable that flushed the rules of an Enable.
C20_Witness ==
    /\ returned.op = "disable" /\ returned.success
    /\ returned.rules_before = 8
    /\ chain.rules = <<>>

----------------------------------------------------------------------------
(* The two chains.                                                         *)

\* C21: after every Enable that reports success, however many Enables came
\* before it, the chain holds exactly the eight rules, in their order and
\* without duplicates, the catch-all REJECT last.
C21_EnableRuleSequence ==
    (returned.op = "enable" /\ returned.success) => chain.rules = RULES

\* C22: after an enforcer or a redirector has been constructed, any number
\* of times, OUTPUT holds exactly one jump to its chain.
C22_OneJump ==
    /\ returned.op = "init" => chain.jumps = 1
    /\ returned.op = "redirector" => nat_chain.jumps = 1

\* C23: after a successful enable_redirection the nat chain holds exactly
\* two rules for destination 127.0.0.1, port 80 to the HTTP port of the
\* blocking server and port 443 to its HTTPS port; after a successful
\* disable_redirection it holds none.
C23_RedirectRules ==
    /\ (returned.op = "enable_redirection" /\ returned.success)
       => nat_chain.rules = <<redirect_rule(80, port),
                              redirect_rule(443, https_port)>>
    /\ (returned.op = "disable_redirection" /\ returned.success)
       => nat_chain.rules = <<>>

\* C24: when the daemon goes through stop(), whatever it was doing (asleep,
\* about to check, between two rule insertions of Enable), the flush of
\* Disable has been run before it exits and, if the flush succeeded, the
\* chain holds no rule at exit.
C24_StopDisables ==
    [][(daemon.pc # "exited" /\ daemon'.pc = "exited")
       => /\ returned'.op = "stop"
          /\ returned'.success => chain'.rules = <<>>]_vars

C24_NoRuleAtExit ==
    (daemon.pc = "exited" /\ returned.op = "stop" /\ returned.success)
    => chain.rules = <<>>

C24_FailOpen == []C24_NoRuleAtExit /\ C24_StopDisables

\* The signal came between the third and the fourth rule insertion of an
\* Enable, and the flush succeeded.
C24_Witness ==
    /\ daemon.pc = "exited"
    /\ returned.op = "stop" /\ returned.success
    /\ returned.rules_before = 3
    /\ chain.rules = <<>>

\* C25: after every tick of the daemon whose firewall commands all
\* succeeded, the chain has rules exactly when the time verdict is deny,
\* whatever the chain held when the tick began (rules left by a crashed
\* run, or none after a flush from outside).
C25_TickConverges ==
    [][(returned'.op = "check" /\ returned'.broken = {} /\ chain.exists)
       => /\ returned'.success
          /\ chain'.rules # <<>> <=> returned'.enabled]_vars

\* A tick that found seven rules left over while access was allowed, and
\* flushed them.
C25_Witness ==
    /\ returned.op = "check" /\ returned.broken = {}
    /\ returned.rules_before = 7
    /\ ~returned.enabled
    /\ chain.exists /\ chain.rules = <<>>

\* A tick that found the chain empty while access was denied, and put the
\* rules in place.
C25_WitnessDeny ==
    /\ returned.op = "check" /\ returned.broken = {}
    /\ returned.rules_before = 0
    /\ returned.enabled
    /\ chain.rules = RULES

----------------------------------------------------------------------------
(* The Rule Store and its file.                                            *)

\* The tables of the store.
Tables ==
    <<time_schedules, settings, daily_usage, blocked_sites,
      blacklist_categories, blacklist_domains, temporary_exceptions>>

\* C26: every mutation of the Rule Store is durable when it returns: after
\* an operation that changed a table, the database file holds the change,
\* so that a store instance opened afterwards on the file observes it.
C26_MutationsDurable ==
    [][Tables' # Tables => ~cache_modified']_vars

\* toggle_category_blocking(c, False) followed by
\* toggle_category_blocking(c, True) on the categories of the store.
RoundTrip(c) ==
    toggled(toggled(blacklist_categories, c, FALSE).categories, c, TRUE)

StoredFor(category) ==
    {e.domain : e \in {e \in Range(blacklist_domains) :
                          e.category = category}}

\* C28: a refresh of an external category that failed (no list downloaded,
\* extracted or parsed, or the store failed while the list was written)
\* leaves the stored domain set and the domain_count of the category as
\* they were.
C28_FailedRefreshKeeps ==
    (returned.op = "update_category" /\ ~returned.success)
    => /\ StoredFor(returned.category) = returned.domains_before
       /\ blacklist_categories[returned.category].domain_count =
             returned.count_before

----------------------------------------------------------------------------
(* The blocking server and its certificates.                               *)

\* The files of a domain's certificate and key.
PairFiles(files, domain) ==
    {f \in files : /\ f.dir = "domains" /\ f.name = safe_domain(domain)
                   /\ f.ext \in {"crt", "key"}}

\* C29: generate_cert(domain) returns a pair only when the certificate and
\* the key are both on disk; a cached pair is returned and no file is
\* written; on a cache miss without the root CA no pair is returned,
\* nothing is written and neither a certificate nor a key of the domain is
\* on disk.
C29_GenerateCert ==
    returned.op = "generate_cert"
    => /\ returned.pair => has_cert(cert_dir, returned.domain)
       /\ returned.cached
          => returned.pair /\ cert_dir = returned.files_before
       /\ (~returned.cached /\ ~returned.ca)
          => /\ ~returned.pair
             /\ cert_dir = returned.files_before
             /\ PairFiles(cert_dir, returned.domain) = {}

\* A certificate was asked for on a machine without the root CA.
C29_Witness ==
    /\ returned.op = "generate_cert"
    /\ ~returned.cached
    /\ ~returned.ca
    /\ ~returned.pair

\* A cached pair was returned at a later time than it was written.
C29_WitnessCached ==
    /\ returned.op = "generate_cert"
    /\ returned.cached
    /\ \E f \in PairFiles(cert_dir, returned.domain) : f.mtime < Stamp(now)

\* C30: a start of the server without the files of the root CA, on a free
\* HTTP port, reports success, the HTTP listener serves, is_running() is
\* true and no HTTPS listener is started.
C30_HttpWithoutCA ==
    (/\ returned.op = "start_blocking_server"
     /\ ~returned.was_running
     /\ ~returned.ca
     /\ ~returned.port_taken
     /\ returned.fail # "http")
    => /\ returned.success
       /\ server.http
       /\ is_running(server)
       /\ ~server.https

\* The server was started with HTTPS asked for and without the root CA.
C30_Witness ==
    /\ returned.op = "start_blocking_server"
    /\ ~returned.was_running
    /\ ~returned.ca
    /\ returned.use_https
    /\ returned.success
    /\ is_running(server)

----------------------------------------------------------------------------
(* The block page.                                                         *)

\* The blocking server has just answered a request: `returned` is its
\* response and `last` the verdict it asked for.
Answered ==
    /\ returned.op = "do_GET"
    /\ last.op = "decide"
    /\ last.domain = returned.host

ValidTimeStrs == {"00:00", "06:00", "22:00", "23:59"}

\* C34: every schedule in the store has at least one day, days in 0..6
\* only, and start and end times that are valid HH:MM.
C34_SchedulesWellFormed ==
    \A i \in 1..Len(time_schedules) :
       /\ time_schedules[i].days # {}
       /\ time_schedules[i].days \subseteq 0..6
       /\ time_schedules[i].start_time \in ValidTimeStrs
       /\ time_schedules[i].end_time \in ValidTimeStrs

\* C35: when a read of the store raises while a request is decided, the
\* verdict is not "Access allowed".
C35_StoreFailureReported ==
    (Decided /\ last.store # "none") => last.reason # "Access allowed"

\* C38: a request that is served the block page is not recorded as
\* allowed: its activity-log entry is not 'allowed', today's minutes_used
\* is what it was, and the reason sent is not "Access allowed".
C38_BlockPageNeverAllowed ==
    (Answered /\ returned.status = 302)
    => /\ last.log_action # "allowed"
       /\ MinutesUsed(Today) = last.used_before
       /\ returned.params.reason # "Access allowed"

-----------------------------------------------------------------------------
(* Domain validation *)

\* C32: validating a domain twice gives what validating it once gives: a
\* domain that /add_blocked_site stored, which is the result of
\* validate_domain on the form's input, is accepted by validate_domain and
\* returned unchanged.
C32_ValidateIdempotent ==
    \A i \in 1..Len(blocked_sites) :
        blocked_sites[i].category = "MANUAL"
            => validate_domain(blocked_sites[i].domain)
                   = [ok |-> TRUE, domain |-> blocked_sites[i].domain]

\* A stored domain is canonical: no scheme, path or port, no leading "www"
\* or "*" label, no trailing dot, no upper-case letter.
canonical(domain) ==
    /\ domain # <<>>
    /\ \A i \in 1..Len(domain) :
          /\ domain[i] \notin SchemeLabels \cup PathLabels \cup PortLabels
          /\ lower_label(domain[i]) = domain[i]
    /\ domain[1] \notin {"www", "*"}
    /\ domain[Len(domain)] # ""

\* C33: every domain of the manual block list is canonical and passes
\* validation, whichever form stored it.
C33_StoredCanonical ==
    \A i \in 1..Len(blocked_sites) :
        /\ canonical(blocked_sites[i].domain)
        /\ validate_domain(blocked_sites[i].domain).ok

-----------------------------------------------------------------------------
(* Refreshing a category *)

\* C39: a refresh of the external category "adult" (update_category, with
\* or without the handler around it, whatever the download yields) leaves
\* is_active of every category as it was, and the stored domains of the
\* other categories too.
C39_RefreshKeepsActive ==
    [][((\E l \in DomainLists : update_category("adult", l))
        \/ (\E l \in DomainLists, fail \in StoreFailures :
               api_update_category("adult", l, fail)))
       => /\ \A c \in CategoryNames :
               blacklist_categories'[c].is_active
                   = blacklist_categories[c].is_active
          /\ \A c \in CategoryNames \ {"adult"} :
               StoredFor(c)' = StoredFor(c)]_vars

-----------------------------------------------------------------------------
(* What Status takes for a block *)

\* C37: when Status reports enabled, the chain ends with the catch-all
\* REJECT rule.
C37_EnabledMeansReject ==
    (returned.op = "status" /\ returned.enabled)
    => /\ chain.rules # <<>>
       /\ chain.rules[Len(chain.rules)] = "REJECT"

-----------------------------------------------------------------------------
(* The daemon and the persisted store *)

\* The verdict of the schedules and the cap the file holds now.
PersistedDeny ==
    ~TimeManager_is_access_allowed(time_schedules, settings, daily_usage,
                                   now).allowed

\* C36: the firewall converges to the verdict of the persisted store: when
\* from some moment on the store denies access, the chain comes to hold the
\* rules of the block, and when from some moment on the store allows
\* access, the chain comes to be empty, whichever store instance wrote the
\* schedules.
C36_DaemonFollowsStore ==
    /\ (<>[]PersistedDeny) => <>(chain.rules = RULES)
    /\ (<>[]~PersistedDeny) => <>[](chain.rules = <<>>)

-----------------------------------------------------------------------------
(* The daily cap under concurrent decisions *)

\* C40: with an active cap that does not change, the minutes recorded for
\* a day never exceed the cap, however the decisions of the listener
\* threads interleave.
C40_CapBoundsUsage ==
    (settings.has_limit /\ settings.is_active)
    => \A i \in 1..Len(daily_usage) :
          daily_usage[i].minutes_used <= settings.time_limit_minutes

====
